---- MODULE Spec2Model ----
(***************************************************************************)
(* Model of the algtrax execution-to-animation pipeline: the trace         *)
(* generators (pure functions from an input to a sequence of snapshots),   *)
(* the zustand trace store, and the Visualiser's playback state machine    *)
(* as React runs it (hook state, the closures of the last committed        *)
(* render, the interval timer owned by the animation effect).              *)
(*                                                                         *)
(* Arrays are TLA+ sequences (1-based); every index the code stores in a   *)
(* snapshot (comparing, swapping, sorted, ...) keeps its 0-based value.    *)
(***************************************************************************)
EXTENDS Integers, Sequences, FiniteSets, TLC

\* ---------------------------------------------------------------- bounds
\* longest input array handed to a generator
MaxN == 3
\* array elements are drawn from 1..MaxVal
MaxVal == 3
\* the store's default input is the first DataLen elements of the default data
DataLen == 2
\* the speed slider offers its first MaxSpeedSteps + 1 positions (and the default)
MaxSpeedSteps == 1
\* the tick count of one playback run is recorded up to MaxTicks
MaxTicks == 16
\* the largest number of nodes of a graph handed to a graph generator
MaxNodes == 3
\* the largest number of edges of such a graph
MaxEdges == 2
\* the largest number of keys put into the hash table
MaxKeys == 2

\* --------------------------------------------------- program constants
\* useState(1000): the initial step interval of the Visualiser
DefaultSpeed == 1000
\* <input type="range" min="100" step="100">
SpeedMin == 100
SpeedStep == 100

\* ------------------------------------------------------- array helpers
\* Array.from({ length: len }, (_, idx) => first + step * idx)
IndexRange(len, first, step) == [k \in 1..len |-> first + step * (k - 1)]

\* arr[i] for a 0-based index i
At(arr, i) == arr[i + 1]

\* arr[i] = v for a 0-based index i
SetAt(arr, i, v) == [arr EXCEPT ![i + 1] = v]

\* [arr[i], arr[j]] = [arr[j], arr[i]]
SwapAt(arr, i, j) == [arr EXCEPT ![i + 1] = arr[j + 1], ![j + 1] = arr[i + 1]]

\* the set of elements of an array
Elems(arr) == {arr[k] : k \in DOMAIN arr}

\* array.map(...): a new array, held as an explicit tuple
Copy(arr) == SubSeq(arr, 1, Len(arr))

\* states[states.length - 1]
Final(t) == t[Len(t)]

\* ------------------------------------------------------------ bubbleSort
RECURSIVE BubbleInner(_, _, _, _)
BubbleInner(array, states, i, j) ==
    LET n == Len(array)
        sortedSoFar == IndexRange(i, n - 1, -1)
    IN  IF j < n - i - 1
        THEN LET s1 == Append(states, [values |-> array, comparing |-> <<j, j + 1>>,
                                       swapping |-> <<>>, sorted |-> sortedSoFar])
             IN  IF At(array, j) > At(array, j + 1)
                 THEN LET s2 == Append(s1, [values |-> array, comparing |-> <<>>,
                                            swapping |-> <<j, j + 1>>, sorted |-> sortedSoFar])
                          swapped == SwapAt(array, j, j + 1)
                          s3 == Append(s2, [values |-> swapped, comparing |-> <<>>,
                                            swapping |-> <<>>, sorted |-> sortedSoFar])
                      IN  BubbleInner(swapped, s3, i, j + 1)
                 ELSE BubbleInner(array, s1, i, j + 1)
        ELSE [array |-> array, states |-> states]

RECURSIVE BubbleOuter(_, _, _)
BubbleOuter(array, states, i) ==
    LET n == Len(array)
    IN  IF i < n - 1
        THEN LET r == BubbleInner(array, states, i, 0)
                 s == Append(r.states, [values |-> r.array, comparing |-> <<>>, swapping |-> <<>>,
                                        sorted |-> IndexRange(i + 1, n - 1, -1)])
             IN  BubbleOuter(r.array, s, i + 1)
        ELSE states

bubbleSort(arr) ==
    BubbleOuter(arr, <<[values |-> arr, comparing |-> <<>>, swapping |-> <<>>, sorted |-> <<>>]>>, 0)

\* --------------------------------------------------------- insertionSort
RECURSIVE InsertionWhile(_, _, _, _, _)
InsertionWhile(array, states, i, key, j) ==
    LET sortedSoFar == IndexRange(i, 0, 1)
    IN  IF j >= 0 /\ At(array, j) > key
        THEN LET s1 == Append(states, [values |-> array, comparing |-> <<j, j + 1>>,
                                       swapping |-> <<>>, sorted |-> sortedSoFar, key |-> i])
                 s2 == Append(s1, [values |-> array, comparing |-> <<>>,
                                   swapping |-> <<j, j + 1>>, sorted |-> sortedSoFar, key |-> i])
                 shifted == SetAt(array, j + 1, At(array, j))
                 s3 == Append(s2, [values |-> shifted, comparing |-> <<>>,
                                   swapping |-> <<>>, sorted |-> sortedSoFar, key |-> i])
             IN  InsertionWhile(shifted, s3, i, key, j - 1)
        ELSE [array |-> array, states |-> states, j |-> j]

RECURSIVE InsertionFor(_, _, _)
InsertionFor(array, states, i) ==
    IF i < Len(array)
    THEN LET key == At(array, i)
             s0 == Append(states, [values |-> array, comparing |-> <<>>, swapping |-> <<>>,
                                   sorted |-> IndexRange(i, 0, 1), key |-> i])
             r == InsertionWhile(array, s0, i, key, i - 1)
             placed == SetAt(r.array, r.j + 1, key)
             s == Append(r.states, [values |-> placed, comparing |-> <<>>, swapping |-> <<>>,
                                    sorted |-> IndexRange(i + 1, 0, 1), key |-> -1])
         IN  InsertionFor(placed, s, i + 1)
    ELSE states

insertionSort(arr) ==
    InsertionFor(arr, <<[values |-> arr, comparing |-> <<>>, swapping |-> <<>>,
                         sorted |-> <<0>>, key |-> -1]>>, 1)

\* ------------------------------------------------------------- quickSort
\* one snapshot of quickSort; every field the code writes is a parameter
QuickState(values, comparing, swapping, sorted, pivot, part, left, right) ==
    [values |-> values, comparing |-> comparing, swapping |-> swapping, sorted |-> sorted,
     pivot |-> pivot, partition |-> part, left |-> left, right |-> right]

RECURSIVE PartitionFor(_, _, _, _, _, _, _)
PartitionFor(array, states, low, high, pivot, i, j) ==
    LET part == IndexRange(high - low + 1, low, 1)
    IN  IF j < high
        THEN LET s1 == Append(states, QuickState(array, <<j, high>>, <<>>, <<>>, <<high>>, part, <<>>, <<>>))
             IN  IF At(array, j) <= pivot
                 THEN LET i1 == i + 1
                      IN  IF i1 # j
                          THEN LET s2 == Append(s1, QuickState(array, <<>>, <<i1, j>>, <<>>, <<high>>, part, <<>>, <<>>))
                                   swapped == SwapAt(array, i1, j)
                                   s3 == Append(s2, QuickState(swapped, <<>>, <<>>, <<>>, <<high>>, part, <<>>, <<>>))
                               IN  PartitionFor(swapped, s3, low, high, pivot, i1, j + 1)
                          ELSE PartitionFor(array, s1, low, high, pivot, i1, j + 1)
                 ELSE PartitionFor(array, s1, low, high, pivot, i, j + 1)
        ELSE [array |-> array, states |-> states, i |-> i]

partition(array, states, low, high) ==
    LET pivot == At(array, high)
        part == IndexRange(high - low + 1, low, 1)
        s0 == Append(states, QuickState(array, <<>>, <<>>, <<>>, <<high>>, part, <<>>, <<>>))
        r == PartitionFor(array, s0, low, high, pivot, low - 1, low)
        i == r.i
    IN  IF i + 1 # high
        THEN LET s1 == Append(r.states, QuickState(r.array, <<>>, <<i + 1, high>>, <<>>, <<high>>, part, <<>>, <<>>))
                 swapped == SwapAt(r.array, i + 1, high)
                 s2 == Append(s1, QuickState(swapped, <<>>, <<>>, <<i + 1>>, <<>>, <<>>, <<>>, <<>>))
             IN  [array |-> swapped, states |-> s2, pi |-> i + 1]
        ELSE [array |-> r.array,
              states |-> Append(r.states, QuickState(r.array, <<>>, <<>>, <<i + 1>>, <<>>, <<>>, <<>>, <<>>)),
              pi |-> i + 1]

RECURSIVE quickSortHelper(_, _, _, _)
quickSortHelper(array, states, low, high) ==
    LET n == Len(array)
    IN  IF low < high
        THEN LET s0 == Append(states, QuickState(array, <<>>, <<>>, <<>>, <<>>, <<>>,
                                  IndexRange(low, 0, 1),
                                  IndexRange(n - high - 1, high + 1, 1)))
                 p == partition(array, s0, low, high)
                 s1 == Append(p.states, QuickState(p.array, <<>>, <<>>, <<p.pi>>, <<>>, <<>>,
                                  IndexRange(p.pi, 0, 1),
                                  IndexRange(n - p.pi - 1, p.pi + 1, 1)))
                 l == quickSortHelper(p.array, s1, low, p.pi - 1)
             IN  quickSortHelper(l.array, l.states, p.pi + 1, high)
        ELSE IF low = high
        THEN [array |-> array,
              states |-> Append(states, QuickState(array, <<>>, <<>>, <<low>>, <<>>, <<>>,
                                  IndexRange(low, 0, 1),
                                  IndexRange(n - high - 1, high + 1, 1)))]
        ELSE [array |-> array, states |-> states]

quickSort(arr) ==
    LET n == Len(arr)
        r == quickSortHelper(arr, <<QuickState(arr, <<>>, <<>>, <<>>, <<>>, <<>>, <<>>, <<>>)>>, 0, n - 1)
    IN  Append(r.states, QuickState(r.array, <<>>, <<>>, IndexRange(n, 0, 1),
                                    <<>>, <<>>, <<>>, <<>>))

\* ------------------------------------------------------------- mergeSort
\* one snapshot of mergeSort
MergeState(values, comparing, sorted, left, right, merging) ==
    [values |-> values, comparing |-> comparing, swapping |-> <<>>, sorted |-> sorted,
     left |-> left, right |-> right, merging |-> merging]

(* The run of mergeSort is carried in a record m:                          *)
(*   states   the trace as a reader of it sees it now;                     *)
(*   pushed   history: each snapshot with the contents it had when pushed; *)
(*   shared   the trace indices whose values IS merge's currentArray (the  *)
(*            code pushes `values: currentArray`, no copy);                *)
(*   cur      merge's currentArray.                                        *)

\* states.push({ values: currentArray, ... }): the snapshot holds the array itself
PushShared(m, snap) ==
    [m EXCEPT !.states = Append(m.states, snap),
              !.pushed = Append(m.pushed, snap),
              !.shared = m.shared \cup {Len(m.states) + 1}]

\* states.push({ values: [...x], ... }): the snapshot holds its own copy
PushCopy(m, snap) ==
    [m EXCEPT !.states = Append(m.states, snap),
              !.pushed = Append(m.pushed, snap)]

\* for (k...) currentArray[startIndex + k] = result[k]: every snapshot that holds
\* currentArray shows the write
WriteCurrent(m, startIndex, result) ==
    LET cur == [k \in DOMAIN m.cur |->
                   IF k - 1 >= startIndex /\ k - 1 < startIndex + Len(result)
                   THEN result[k - startIndex] ELSE m.cur[k]]
    IN  [m EXCEPT !.cur = cur,
                  !.states = [k \in DOMAIN m.states |->
                                 IF k \in m.shared THEN [m.states[k] EXCEPT !.values = cur]
                                 ELSE m.states[k]]]

\* the body shared by the three loops of merge after an element was taken
MergeStep(m, left, right, startIndex, result) ==
    LET w == WriteCurrent(m, startIndex, result)
    IN  PushCopy(w, MergeState(w.cur, <<>>,
                     IndexRange(startIndex + Len(result), 0, 1),
                     IndexRange(Len(left), startIndex, 1),
                     IndexRange(Len(right), startIndex + Len(left), 1), TRUE))

RECURSIVE MergeRest(_, _, _, _, _, _, _)
MergeRest(m, left, right, startIndex, result, i, j) ==
    IF i < Len(left)
    THEN LET res == Append(result, At(left, i))
         IN  MergeRest(MergeStep(m, left, right, startIndex, res), left, right, startIndex, res, i + 1, j)
    ELSE IF j < Len(right)
    THEN LET res == Append(result, At(right, j))
         IN  MergeRest(MergeStep(m, left, right, startIndex, res), left, right, startIndex, res, i, j + 1)
    ELSE [m |-> m, result |-> result]

RECURSIVE MergeWhile(_, _, _, _, _, _, _)
MergeWhile(m, left, right, startIndex, result, i, j) ==
    IF i < Len(left) /\ j < Len(right)
    THEN LET m1 == PushShared(m, MergeState(m.cur, <<startIndex + i, startIndex + Len(left) + j>>,
                        IndexRange(startIndex, 0, 1),
                        IndexRange(Len(left), startIndex, 1),
                        IndexRange(Len(right), startIndex + Len(left), 1), TRUE))
         IN  IF At(left, i) <= At(right, j)
             THEN LET res == Append(result, At(left, i))
                  IN  MergeWhile(MergeStep(m1, left, right, startIndex, res), left, right, startIndex, res, i + 1, j)
             ELSE LET res == Append(result, At(right, j))
                  IN  MergeWhile(MergeStep(m1, left, right, startIndex, res), left, right, startIndex, res, i, j + 1)
    ELSE MergeRest(m, left, right, startIndex, result, i, j)

\* merge(left, right, startIndex) with the enclosing array; currentArray is local
\* to the call, so no later call writes the snapshots this one shared
merge(m, array, left, right, startIndex) ==
    LET m0 == PushShared([m EXCEPT !.cur = array, !.shared = {}],
                  MergeState(array, <<>>, <<>>,
                      IndexRange(Len(left), startIndex, 1),
                      IndexRange(Len(right), startIndex + Len(left), 1), TRUE))
    IN  MergeWhile(m0, left, right, startIndex, <<>>, 0, 0)

RECURSIVE mergeSortHelper(_, _, _, _)
mergeSortHelper(m, array, start, end) ==
    IF end - start <= 1
    THEN [m |-> m, array |-> array, merged |-> SubSeq(array, start + 1, end)]
    ELSE LET mid == (start + end) \div 2
             m0 == PushCopy(m, MergeState(array, <<>>, <<>>,
                       IndexRange(mid - start, start, 1),
                       IndexRange(end - mid, mid, 1), FALSE))
             l == mergeSortHelper(m0, array, start, mid)
             r == mergeSortHelper(l.m, l.array, mid, end)
             g == merge(r.m, r.array, l.merged, r.merged, start)
             merged == g.result
             written == [k \in DOMAIN r.array |->
                            IF k - 1 >= start /\ k - 1 < start + Len(merged)
                            THEN merged[k - start] ELSE r.array[k]]
             m1 == PushCopy(g.m, MergeState(written, <<>>, IndexRange(end, 0, 1),
                                            <<>>, <<>>, FALSE))
         IN  [m |-> m1, array |-> written, merged |-> merged]

\* the whole run: the trace mergeSort returns, and the history of its pushes
MergeSortRun(arr) ==
    LET first == MergeState(arr, <<>>, <<>>, <<>>, <<>>, FALSE)
    IN  mergeSortHelper([states |-> <<first>>, pushed |-> <<first>>, shared |-> {}, cur |-> arr],
                        arr, 0, Len(arr)).m

mergeSort(arr) == MergeSortRun(arr).states

\* ---------------------------------------------------------- linearSearch
\* array[i] === target on numbers
StrictEquals_AtLeast(value, wanted) == value >= wanted

StrictEquals(value, wanted) == value = wanted

\* one snapshot of linearSearch
LinearState(values, comparing, searching, found, wanted) ==
    [values |-> values, comparing |-> comparing, swapping |-> <<>>, sorted |-> <<>>,
     searching |-> searching, found |-> found, target |-> wanted]

\* the for loop from index i on; done tells whether it ran to the end or left by break
RECURSIVE LinearFor(_, _, _, _)
LinearFor(array, states, wanted, i) ==
    IF i < Len(array)
    THEN LET s1 == Append(states, LinearState(array, <<i>>, <<i>>, <<>>, wanted))
         IN  IF StrictEquals(At(array, i), wanted)
             THEN Append(s1, LinearState(array, <<>>, <<>>, <<i>>, wanted))
             ELSE LinearFor(array, Append(s1, LinearState(array, <<>>, <<>>, <<>>, wanted)),
                            wanted, i + 1)
    ELSE states

\* array.includes(target)
Includes(array, wanted) == wanted \in Elems(array)

linearSearch(arr, wanted) ==
    LET s0 == <<LinearState(arr, <<>>, <<>>, <<>>, wanted)>>
        s1 == LinearFor(arr, s0, wanted, 0)
    IN  IF ~Includes(arr, wanted)
        THEN Append(s1, LinearState(arr, <<>>, <<>>, <<>>, wanted))
        ELSE s1

\* ---------------------------------------------------------- binarySearch
\* one snapshot of binarySearch
BinaryState(values, comparing, searching, found, wanted, left, right, mid) ==
    [values |-> values, comparing |-> comparing, searching |-> searching, found |-> found,
     target |-> wanted, left |-> left, right |-> right, mid |-> mid]

\* the while loop from the bounds left, right on
RECURSIVE BinaryWhile(_, _, _, _, _)
BinaryWhile(array, states, wanted, left, right) ==
    IF left <= right
    THEN LET mid == (left + right) \div 2
             s1 == Append(states, BinaryState(array, <<mid>>,
                                      IndexRange(right - left + 1, left, 1), <<>>,
                                      wanted, left, right, mid))
         IN  IF StrictEquals(At(array, mid), wanted)
             THEN Append(s1, BinaryState(array, <<>>, <<>>, <<mid>>, wanted, left, right, mid))
             ELSE IF At(array, mid) > wanted
             THEN BinaryWhile(array,
                      Append(s1, BinaryState(array, <<>>,
                                     IndexRange((mid - 1) - left + 1, left, 1), <<>>,
                                     wanted, left, mid - 1, mid)),
                      wanted, left, mid - 1)
             ELSE BinaryWhile(array,
                      Append(s1, BinaryState(array, <<>>,
                                     IndexRange(right - (mid + 1) + 1, mid + 1, 1), <<>>,
                                     wanted, mid + 1, right, mid)),
                      wanted, mid + 1, right)
    ELSE Append(states, BinaryState(array, <<>>, <<>>, <<>>, wanted, -1, -1, -1))

binarySearch(arr, wanted) ==
    BinaryWhile(arr,
                <<BinaryState(arr, <<>>, IndexRange(Len(arr), 0, 1), <<>>,
                              wanted, 0, Len(arr) - 1, -1)>>,
                wanted, 0, Len(arr) - 1)

\* ===================================================== graph generators
\* Nodes are records [id, x, y]; edges are records [from, to, weight]. A
\* snapshot holds the nodes and the edges with a status each. Sets and maps of
\* the code that are iterated or copied in insertion order are sequences here.

\* Infinity of the scores; every finite score of a bounded graph is below it
Infinity == 1000000

\* nodes.forEach(node => { map.set(node.id, Infinity) }); map.set(start, first):
\* a map from every node id to a score (@@ makes it an explicit table)
ScoreMap(nodes, start, first) ==
    [id \in {nodes[k].id : k \in DOMAIN nodes} |-> IF id = start THEN first ELSE Infinity] @@ <<>>

\* edges.map(edge => ({ ...edge, status: 'normal' }))
NormalEdges(edgeList) ==
    Copy([k \in DOMAIN edgeList |->
        [from |-> edgeList[k].from, to |-> edgeList[k].to,
         weight |-> edgeList[k].weight, status |-> "normal"]])

\* edges.filter(edge => edge.from === current || edge.to === current)
\*      .map(edge => ({ node: edge.from === current ? edge.to : edge.from, weight: edge.weight }))
Neighbors(edgeList, current) ==
    LET touching == SelectSeq(edgeList, LAMBDA e : e.from = current \/ e.to = current)
    IN  Copy([k \in DOMAIN touching |->
            [node |-> IF touching[k].from = current THEN touching[k].to ELSE touching[k].from,
             weight |-> touching[k].weight]])

\* the same, ids only
NeighborIds(edgeList, current) ==
    LET ns == Neighbors(edgeList, current)
    IN  Copy([k \in DOMAIN ns |-> ns[k].node])

\* (edge.from === current && edge.to === neighbor) || (edge.to === current && edge.from === neighbor)
Joins(e, a, b) == (e.from = a /\ e.to = b) \/ (e.to = a /\ e.from = b)

\* the edges of the last snapshot with the explored edge marked 'current'
CurrentEdge(edgeStates, current, neighbor) ==
    Copy([k \in DOMAIN edgeStates |->
        IF Joins(edgeStates[k], current, neighbor)
        THEN [edgeStates[k] EXCEPT !.status = "current"]
        ELSE edgeStates[k]])

\* status: node.id === current ? 'current' : visited.has(node.id) ? 'visited' : node.status
VisitNodes(nodeStates, current, visited) ==
    Copy([k \in DOMAIN nodeStates |->
        [nodeStates[k] EXCEPT !.status =
            IF nodeStates[k].id = current THEN "current"
            ELSE IF Includes(visited, nodeStates[k].id) THEN "visited"
            ELSE @]])

\* status: path.includes(node.id) ? 'path' : node.status
PathNodes(nodeStates, p) ==
    Copy([k \in DOMAIN nodeStates |->
        IF Includes(p, nodeStates[k].id)
        THEN [nodeStates[k] EXCEPT !.status = "path"]
        ELSE nodeStates[k]])

\* path.includes(edge.from) && path.includes(edge.to)
OnPath(e, p) == Includes(p, e.from) /\ Includes(p, e.to)

\* status: path.includes(edge.from) && path.includes(edge.to) ? 'path' : edge.status
PathEdges(edgeStates, p) ==
    Copy([k \in DOMAIN edgeStates |->
        IF OnPath(edgeStates[k], p)
        THEN [edgeStates[k] EXCEPT !.status = "path"]
        ELSE edgeStates[k]])

\* parent.get(current) || start
ParentOrStart_Self(parent, current, start) == start

ParentOrStart(parent, current, start) ==
    IF current \in DOMAIN parent THEN parent[current] ELSE start

RECURSIVE ReconstructWhile(_, _, _, _)
ReconstructWhile(parent, start, current, p) ==
    IF current # start
    THEN ReconstructWhile(parent, start, ParentOrStart(parent, current, start), <<current>> \o p)
    ELSE <<start>> \o p

reconstructPath(parent, start, end) == ReconstructWhile(parent, start, end, <<>>)

\* endNode && current === endNode
ReachedGoal_Always(end, current) == TRUE

ReachedGoal(end, current) == end # "" /\ current = end

\* the result of a traversal that ended without reconstructing a path
NoPath(states0) == [states |-> states0, path |-> <<>>]

\* ----------------------------------------------------- breadthFirstSearch
BfsState(nodeStates, edgeStates, queue, visited, current) ==
    [nodes |-> nodeStates, edges |-> edgeStates, queue |-> queue,
     visited |-> visited, current |-> current]

\* for (const neighbor of neighbors), from the k-th neighbour on; r = [states, queue, parent]
RECURSIVE BfsFor(_, _, _, _, _, _)
BfsFor(neighbors, k, current, updatedNodes, visited, r) ==
    IF k > Len(neighbors)
    THEN r
    ELSE LET neighbor == neighbors[k]
         IN  IF ~Includes(visited, neighbor) /\ ~Includes(r.queue, neighbor)
             THEN LET queue1 == Append(r.queue, neighbor)
                      updatedEdges == CurrentEdge(Final(r.states).edges, current, neighbor)
                  IN  BfsFor(neighbors, k + 1, current, updatedNodes, visited,
                             [states |-> Append(r.states,
                                            BfsState(updatedNodes, updatedEdges, queue1, visited, current)),
                              queue |-> queue1,
                              parent |-> (neighbor :> current) @@ r.parent])
             ELSE BfsFor(neighbors, k + 1, current, updatedNodes, visited, r)

\* while (queue.length > 0); r = [states, queue, parent]
RECURSIVE BfsWhile(_, _, _, _, _)
BfsWhile(edgeList, start, end, visited, r) ==
    IF r.queue = <<>>
    THEN NoPath(r.states)
    ELSE LET current == Head(r.queue)
             queue1 == Tail(r.queue)
         IN  IF Includes(visited, current)
             THEN BfsWhile(edgeList, start, end, visited, [r EXCEPT !.queue = queue1])
             ELSE LET visited1 == Append(visited, current)
                      updatedNodes == VisitNodes(Final(r.states).nodes, current, visited1)
                      s1 == Append(r.states, BfsState(updatedNodes, Final(r.states).edges,
                                                      queue1, visited1, current))
                      r1 == BfsFor(NeighborIds(edgeList, current), 1, current, updatedNodes, visited1,
                                   [states |-> s1, queue |-> queue1, parent |-> r.parent])
                  IN  IF ReachedGoal(end, current)
                      THEN LET p == reconstructPath(r1.parent, start, end)
                           IN  [states |-> Append(r1.states,
                                              BfsState(PathNodes(updatedNodes, p),
                                                       PathEdges(Final(r1.states).edges, p),
                                                       r1.queue, visited1, current)),
                                path |-> p]
                      ELSE BfsWhile(edgeList, start, end, visited1, r1)

\* status: node.id === startNode ? 'start' : 'unvisited'
StartNodes(nodes, start) ==
    Copy([k \in DOMAIN nodes |->
        [id |-> nodes[k].id, x |-> nodes[k].x, y |-> nodes[k].y,
         status |-> IF nodes[k].id = start THEN "start" ELSE "unvisited"]])

breadthFirstSearch(nodes, edgeList, start, end) ==
    BfsWhile(edgeList, start, end, <<>>,
             [states |-> <<BfsState(StartNodes(nodes, start), NormalEdges(edgeList),
                                    <<start>>, <<>>, "null")>>,
              queue |-> <<start>>,
              parent |-> <<>>])

\* ------------------------------------------------------- depthFirstSearch
DfsState(nodeStates, edgeStates, stack, visited, current) ==
    [nodes |-> nodeStates, edges |-> edgeStates, stack |-> stack,
     visited |-> visited, current |-> current]

\* [...].reverse()
Reverse(seq) == Copy([k \in DOMAIN seq |-> seq[Len(seq) + 1 - k]])

\* for (const neighbor of neighbors), from the k-th neighbour on; r = [states, stack, parent]
RECURSIVE DfsFor(_, _, _, _, _, _)
DfsFor(neighbors, k, current, updatedNodes, visited, r) ==
    IF k > Len(neighbors)
    THEN r
    ELSE LET neighbor == neighbors[k]
         IN  IF ~Includes(visited, neighbor) /\ ~Includes(r.stack, neighbor)
             THEN LET stack1 == Append(r.stack, neighbor)
                      updatedEdges == CurrentEdge(Final(r.states).edges, current, neighbor)
                  IN  DfsFor(neighbors, k + 1, current, updatedNodes, visited,
                             [states |-> Append(r.states,
                                            DfsState(updatedNodes, updatedEdges, stack1, visited, current)),
                              stack |-> stack1,
                              parent |-> (neighbor :> current) @@ r.parent])
             ELSE DfsFor(neighbors, k + 1, current, updatedNodes, visited, r)

\* while (stack.length > 0); r = [states, stack, parent]
RECURSIVE DfsWhile(_, _, _, _, _)
DfsWhile(edgeList, start, end, visited, r) ==
    IF r.stack = <<>>
    THEN NoPath(r.states)
    ELSE LET current == r.stack[Len(r.stack)]
             stack1 == SubSeq(r.stack, 1, Len(r.stack) - 1)
         IN  IF Includes(visited, current)
             THEN DfsWhile(edgeList, start, end, visited, [r EXCEPT !.stack = stack1])
             ELSE LET visited1 == Append(visited, current)
                      updatedNodes == VisitNodes(Final(r.states).nodes, current, visited1)
                      s1 == Append(r.states, DfsState(updatedNodes, Final(r.states).edges,
                                                      stack1, visited1, current))
                  IN  IF ReachedGoal(end, current)
                      THEN LET p == reconstructPath(r.parent, start, end)
                           IN  [states |-> Append(s1,
                                              DfsState(PathNodes(updatedNodes, p),
                                                       PathEdges(Final(s1).edges, p),
                                                       stack1, visited1, current)),
                                path |-> p]
                      ELSE LET neighbors ==
                                   Reverse(SelectSeq(NeighborIds(edgeList, current),
                                                     LAMBDA n : ~Includes(visited1, n)))
                           IN  DfsWhile(edgeList, start, end, visited1,
                                        DfsFor(neighbors, 1, current, updatedNodes, visited1,
                                               [states |-> s1, stack |-> stack1, parent |-> r.parent]))

depthFirstSearch(nodes, edgeList, start, end) ==
    DfsWhile(edgeList, start, end, <<>>,
             [states |-> <<DfsState(StartNodes(nodes, start), NormalEdges(edgeList),
                                    <<start>>, <<>>, "null")>>,
              stack |-> <<start>>,
              parent |-> <<>>])

\* --------------------------------------------------------------- dijkstra
DijkstraState(nodeStates, edgeStates, distances, visited, current) ==
    [nodes |-> nodeStates, edges |-> edgeStates, distances |-> distances,
     visited |-> visited, current |-> current]

\* distance: distances.get(node.id)
WithDistance(nodeStates, distances) ==
    Copy([k \in DOMAIN nodeStates |->
        [id |-> nodeStates[k].id, x |-> nodeStates[k].x, y |-> nodeStates[k].y,
         status |-> nodeStates[k].status, distance |-> distances[nodeStates[k].id]]])

\* for (const [nodeId, distance] of distances), from the k-th entry on; the map
\* keeps the order of nodes; best = [current, minDistance]
RECURSIVE MinUnvisited(_, _, _, _, _)
MinUnvisited(nodes, distances, visited, k, best) ==
    IF k > Len(nodes)
    THEN best
    ELSE LET nodeId == nodes[k].id
         IN  IF ~Includes(visited, nodeId) /\ distances[nodeId] < best.minDistance
             THEN MinUnvisited(nodes, distances, visited, k + 1,
                               [current |-> nodeId, minDistance |-> distances[nodeId]])
             ELSE MinUnvisited(nodes, distances, visited, k + 1, best)

\* for (const { node: neighbor, weight } of neighbors), from the k-th on;
\* r = [states, distances, parent]; distances.get of an id the map does not hold
\* is undefined, and no distance is below undefined
RECURSIVE DijkstraFor(_, _, _, _, _, _)
DijkstraFor(neighbors, k, current, updatedNodes, visited, r) ==
    IF k > Len(neighbors)
    THEN r
    ELSE LET neighbor == neighbors[k].node
             newDistance == r.distances[current] + neighbors[k].weight
         IN  IF /\ ~Includes(visited, neighbor)
                /\ neighbor \in DOMAIN r.distances
                /\ newDistance < r.distances[neighbor]
             THEN LET distances1 == [r.distances EXCEPT ![neighbor] = newDistance]
                      updatedEdges == CurrentEdge(Final(r.states).edges, current, neighbor)
                  IN  DijkstraFor(neighbors, k + 1, current, updatedNodes, visited,
                                  [states |-> Append(r.states,
                                                 DijkstraState(WithDistance(updatedNodes, distances1),
                                                               updatedEdges, distances1, visited, current)),
                                   distances |-> distances1,
                                   parent |-> (neighbor :> current) @@ r.parent])
             ELSE DijkstraFor(neighbors, k + 1, current, updatedNodes, visited, r)

\* while (visited.size < nodes.length); r = [states, distances, parent]
RECURSIVE DijkstraWhile(_, _, _, _, _, _)
DijkstraWhile(nodes, edgeList, start, end, visited, r) ==
    IF Len(visited) < Len(nodes)
    THEN LET best == MinUnvisited(nodes, r.distances, visited, 1,
                                  [current |-> "", minDistance |-> Infinity])
             current == best.current
         IN  IF current = "" \/ best.minDistance = Infinity
             THEN NoPath(r.states)
             ELSE LET visited1 == Append(visited, current)
                      updatedNodes == WithDistance(VisitNodes(Final(r.states).nodes, current, visited1),
                                                   r.distances)
                      s1 == Append(r.states, DijkstraState(updatedNodes, Final(r.states).edges,
                                                           r.distances, visited1, current))
                      r1 == DijkstraFor(Neighbors(edgeList, current), 1, current, updatedNodes, visited1,
                                        [states |-> s1, distances |-> r.distances, parent |-> r.parent])
                  IN  IF ReachedGoal(end, current)
                      THEN LET p == reconstructPath(r1.parent, start, end)
                           IN  [states |-> Append(r1.states,
                                              DijkstraState(
                                                  WithDistance(PathNodes(updatedNodes, p), r1.distances),
                                                  PathEdges(Final(r1.states).edges, p),
                                                  r1.distances, visited1, current)),
                                path |-> p]
                      ELSE DijkstraWhile(nodes, edgeList, start, end, visited1, r1)
    ELSE NoPath(r.states)

dijkstra(nodes, edgeList, start, end) ==
    LET distances == ScoreMap(nodes, start, 0)
    IN  DijkstraWhile(nodes, edgeList, start, end, <<>>,
                      [states |-> <<DijkstraState(WithDistance(StartNodes(nodes, start), distances),
                                                  NormalEdges(edgeList), distances, <<>>, "null")>>,
                       distances |-> distances,
                       parent |-> <<>>])

\* ------------------------------------------------------------------ aStar
\* Math.sqrt, to the whole number below: exact on the layouts of the bounded
\* graphs, whose distances are whole, and on the default graph the choices of
\* aStar are the same with the fractions cut off
Sqrt(n) == CHOOSE r \in 0..n : r * r <= n /\ n < (r + 1) * (r + 1)

\* the straight-line distance between two nodes, 0 when one of them is missing
heuristic(nodes, from, to) ==
    LET fromNodes == SelectSeq(nodes, LAMBDA n : n.id = from)
        toNodes == SelectSeq(nodes, LAMBDA n : n.id = to)
    IN  IF fromNodes = <<>> \/ toNodes = <<>>
        THEN 0
        ELSE LET dx == fromNodes[1].x - toNodes[1].x
                 dy == fromNodes[1].y - toNodes[1].y
             IN  Sqrt(dx * dx + dy * dy)

\* score || Infinity: a score of 0 is falsy
OrInfinity(score) == IF score = 0 THEN Infinity ELSE score

AStarState(nodeStates, edgeStates, openSet, closedSet, current, p) ==
    [nodes |-> nodeStates, edges |-> edgeStates, openSet |-> openSet,
     closedSet |-> closedSet, current |-> current, path |-> p]

\* g: gScore.get(node.id) || 0, h: heuristic(nodes, node.id, endNode), f: fScore.get(node.id) || 0
WithScores(nodeStates, nodes, end, gScore, fScore) ==
    Copy([k \in DOMAIN nodeStates |->
        [id |-> nodeStates[k].id, x |-> nodeStates[k].x, y |-> nodeStates[k].y,
         status |-> nodeStates[k].status,
         g |-> gScore[nodeStates[k].id],
         h |-> heuristic(nodes, nodeStates[k].id, end),
         f |-> fScore[nodeStates[k].id]]])

\* for (let i = 1; i < openSet.length; i++), from index i on; best = [current, currentIndex]
RECURSIVE LowestF(_, _, _, _)
LowestF(openSet, fScore, i, best) ==
    IF i < Len(openSet)
    THEN IF OrInfinity(fScore[At(openSet, i)]) < OrInfinity(fScore[best.current])
         THEN LowestF(openSet, fScore, i + 1, [current |-> At(openSet, i), currentIndex |-> i])
         ELSE LowestF(openSet, fScore, i + 1, best)
    ELSE best

\* openSet.splice(currentIndex, 1)
Splice(seq, index) == SubSeq(seq, 1, index) \o SubSeq(seq, index + 2, Len(seq))

\* the status chain of the snapshot that shows the current node
AStarNodes(nodeStates, current, start, end, closedSet, openSet) ==
    Copy([k \in DOMAIN nodeStates |->
        [nodeStates[k] EXCEPT !.status =
            IF nodeStates[k].id = current THEN "current"
            ELSE IF nodeStates[k].id = start THEN "start"
            ELSE IF nodeStates[k].id = end THEN "end"
            ELSE IF Includes(closedSet, nodeStates[k].id) THEN "closed"
            ELSE IF Includes(openSet, nodeStates[k].id) THEN "open"
            ELSE "unvisited"]])

\* status: node.id === neighbor ? 'open' : node.status
OpenNode(nodeStates, neighbor) ==
    Copy([k \in DOMAIN nodeStates |->
        IF nodeStates[k].id = neighbor
        THEN [nodeStates[k] EXCEPT !.status = "open"]
        ELSE nodeStates[k]])

\* edges.find(e => ...): the first edge that joins the two nodes
FindEdge(edgeList, current, neighbor) ==
    SelectSeq(edgeList, LAMBDA e : Joins(e, current, neighbor))[1]

\* for (const neighbor of neighbors), from the k-th neighbour on;
\* r = [states, openSet, gScore, fScore, parent]
RECURSIVE AStarFor(_, _, _, _, _, _, _, _, _)
AStarFor(nodes, edgeList, end, neighbors, k, current, updatedNodes, closedSet, r) ==
    IF k > Len(neighbors)
    THEN r
    ELSE LET neighbor == neighbors[k]
             tentativeGScore == r.gScore[current] + FindEdge(edgeList, current, neighbor).weight
             isOpen == Includes(r.openSet, neighbor)
         IN  IF Includes(closedSet, neighbor)
             THEN AStarFor(nodes, edgeList, end, neighbors, k + 1, current, updatedNodes, closedSet, r)
             ELSE IF isOpen /\ tentativeGScore >= OrInfinity(r.gScore[neighbor])
             THEN AStarFor(nodes, edgeList, end, neighbors, k + 1, current, updatedNodes, closedSet, r)
             ELSE LET openSet1 == IF isOpen THEN r.openSet ELSE Append(r.openSet, neighbor)
                      gScore1 == [r.gScore EXCEPT ![neighbor] = tentativeGScore]
                      fScore1 == [r.fScore EXCEPT ![neighbor] =
                                     tentativeGScore + heuristic(nodes, neighbor, end)]
                      updatedEdges == CurrentEdge(Final(r.states).edges, current, neighbor)
                      neighborUpdatedNodes ==
                          WithScores(OpenNode(updatedNodes, neighbor), nodes, end, gScore1, fScore1)
                  IN  AStarFor(nodes, edgeList, end, neighbors, k + 1, current, updatedNodes, closedSet,
                               [states |-> Append(r.states,
                                              AStarState(neighborUpdatedNodes, updatedEdges, openSet1,
                                                         closedSet, current, <<>>)),
                                openSet |-> openSet1,
                                gScore |-> gScore1,
                                fScore |-> fScore1,
                                parent |-> (neighbor :> current) @@ r.parent])

\* while (openSet.length > 0); r = [states, openSet, gScore, fScore, parent]
RECURSIVE AStarWhile(_, _, _, _, _, _)
AStarWhile(nodes, edgeList, start, end, closedSet, r) ==
    IF r.openSet = <<>>
    THEN NoPath(r.states)
    ELSE LET best == LowestF(r.openSet, r.fScore, 1, [current |-> r.openSet[1], currentIndex |-> 0])
             current == best.current
             openSet1 == Splice(r.openSet, best.currentIndex)
             closedSet1 == IF Includes(closedSet, current) THEN closedSet ELSE Append(closedSet, current)
             updatedNodes == WithScores(AStarNodes(Final(r.states).nodes, current, start, end,
                                                   closedSet1, openSet1),
                                        nodes, end, r.gScore, r.fScore)
             s1 == Append(r.states, AStarState(updatedNodes, Final(r.states).edges, openSet1,
                                               closedSet1, current, <<>>))
         IN  IF current = end
             THEN LET p == reconstructPath(r.parent, start, end)
                  IN  [states |-> Append(s1, AStarState(PathNodes(updatedNodes, p),
                                                        PathEdges(Final(s1).edges, p),
                                                        openSet1, closedSet1, current, p)),
                       path |-> p]
             ELSE AStarWhile(nodes, edgeList, start, end, closedSet1,
                             AStarFor(nodes, edgeList, end, NeighborIds(edgeList, current), 1, current,
                                      updatedNodes, closedSet1,
                                      [states |-> s1, openSet |-> openSet1, gScore |-> r.gScore,
                                       fScore |-> r.fScore, parent |-> r.parent]))

\* status: node.id === startNode ? 'start' : node.id === endNode ? 'end' : <rest>
StartEndNodes(nodes, start, end, rest) ==
    Copy([k \in DOMAIN nodes |->
        [id |-> nodes[k].id, x |-> nodes[k].x, y |-> nodes[k].y,
         status |-> IF nodes[k].id = start THEN "start"
                    ELSE IF nodes[k].id = end THEN "end" ELSE rest]])

aStar(nodes, edgeList, start, end) ==
    LET gScore == ScoreMap(nodes, start, 0)
        fScore == ScoreMap(nodes, start, heuristic(nodes, start, end))
    IN  AStarWhile(nodes, edgeList, start, end, <<>>,
                   [states |-> <<AStarState(WithScores(StartEndNodes(nodes, start, end, "unvisited"),
                                                       nodes, end, gScore, fScore),
                                            NormalEdges(edgeList), <<start>>, <<>>, "null", <<>>)>>,
                    openSet |-> <<start>>,
                    gScore |-> gScore,
                    fScore |-> fScore,
                    parent |-> <<>>])

\* ------------------------------------------------------ tricolorAlgorithm
TricolorState(nodeStates, edgeStates, whiteNodes, grayNodes, blackNodes, current, stack) ==
    [nodes |-> nodeStates, edges |-> edgeStates, whiteNodes |-> whiteNodes,
     grayNodes |-> grayNodes, blackNodes |-> blackNodes, current |-> current, stack |-> stack]

\* set.delete(x)
Delete(seq, x) == SelectSeq(seq, LAMBDA y : y # x)

\* variant: add leaves the set as it was
Add_Nothing(seq, x) == seq

\* set.add(x)
Add(seq, x) == IF Includes(seq, x) THEN seq ELSE Append(seq, x)

\* the status and colour chains of the snapshot that shows current turning mark
TricolorNodes(nodeStates, current, mark, start, end, grayNodes, blackNodes) ==
    Copy([k \in DOMAIN nodeStates |->
        [nodeStates[k] EXCEPT
            !.status = IF nodeStates[k].id = current THEN mark
                       ELSE IF nodeStates[k].id = start THEN "start"
                       ELSE IF nodeStates[k].id = end THEN "end"
                       ELSE IF Includes(grayNodes, nodeStates[k].id) THEN "gray"
                       ELSE IF Includes(blackNodes, nodeStates[k].id) THEN "black"
                       ELSE "white",
            !.color = IF Includes(grayNodes, nodeStates[k].id) THEN "gray"
                      ELSE IF Includes(blackNodes, nodeStates[k].id) THEN "black"
                      ELSE "white"]])

\* if (whiteNodes.has(current)) { ... }; r = [states, whiteNodes, grayNodes, blackNodes, stack, parent]
TurnGray(r, current, start, end) ==
    IF Includes(r.whiteNodes, current)
    THEN LET whiteNodes1 == Delete(r.whiteNodes, current)
             grayNodes1 == Add(r.grayNodes, current)
         IN  [r EXCEPT !.whiteNodes = whiteNodes1,
                       !.grayNodes = grayNodes1,
                       !.states = Append(r.states,
                                     TricolorState(
                                         TricolorNodes(Final(r.states).nodes, current, "gray", start, end,
                                                       grayNodes1, r.blackNodes),
                                         Final(r.states).edges, whiteNodes1, grayNodes1,
                                         r.blackNodes, current, r.stack))]
    ELSE r

\* while (stack.length > 0); r = [states, whiteNodes, grayNodes, blackNodes, stack, parent]
RECURSIVE TricolorWhile(_, _, _, _)
TricolorWhile(edgeList, start, end, r) ==
    IF r.stack = <<>>
    THEN NoPath(r.states)
    ELSE LET current == r.stack[Len(r.stack)]
         IN  IF Includes(r.blackNodes, current)
             THEN TricolorWhile(edgeList, start, end,
                                [r EXCEPT !.stack = SubSeq(r.stack, 1, Len(r.stack) - 1)])
             ELSE LET r1 == TurnGray(r, current, start, end)
                      neighbors == SelectSeq(NeighborIds(edgeList, current),
                                             LAMBDA n : Includes(r1.whiteNodes, n))
                  IN  IF Len(neighbors) > 0
                      THEN LET nextNeighbor == neighbors[1]
                               stack1 == Append(r1.stack, nextNeighbor)
                               updatedEdges == CurrentEdge(Final(r1.states).edges, current, nextNeighbor)
                           IN  TricolorWhile(edgeList, start, end,
                                   [r1 EXCEPT !.stack = stack1,
                                              !.parent = (nextNeighbor :> current) @@ r1.parent,
                                              !.states = Append(r1.states,
                                                  TricolorState(Final(r1.states).nodes, updatedEdges,
                                                                r1.whiteNodes, r1.grayNodes,
                                                                r1.blackNodes, current, stack1))])
                      ELSE LET grayNodes1 == Delete(r1.grayNodes, current)
                               blackNodes1 == Add(r1.blackNodes, current)
                               stack1 == SubSeq(r1.stack, 1, Len(r1.stack) - 1)
                               updatedNodes == TricolorNodes(Final(r1.states).nodes, current, "black",
                                                             start, end, grayNodes1, blackNodes1)
                               s1 == Append(r1.states,
                                        TricolorState(updatedNodes, Final(r1.states).edges, r1.whiteNodes,
                                                      grayNodes1, blackNodes1, "null", stack1))
                           IN  IF ReachedGoal(end, current)
                               THEN LET p == reconstructPath(r1.parent, start, end)
                                    IN  [states |-> Append(s1,
                                                       [path |-> p] @@
                                                       TricolorState(PathNodes(updatedNodes, p),
                                                                     PathEdges(Final(s1).edges, p),
                                                                     r1.whiteNodes, grayNodes1,
                                                                     blackNodes1, "null", stack1)),
                                         path |-> p]
                               ELSE TricolorWhile(edgeList, start, end,
                                        [r1 EXCEPT !.grayNodes = grayNodes1,
                                                   !.blackNodes = blackNodes1,
                                                   !.stack = stack1,
                                                   !.states = s1])

tricolorAlgorithm(nodes, edgeList, start, end) ==
    LET whiteNodes == Copy([k \in DOMAIN nodes |-> nodes[k].id])
        initialNodes == Copy([k \in DOMAIN nodes |->
                            [id |-> nodes[k].id, x |-> nodes[k].x, y |-> nodes[k].y,
                             status |-> StartEndNodes(nodes, start, end, "white")[k].status,
                             color |-> "white"]])
    IN  TricolorWhile(edgeList, start, end,
                      [states |-> <<TricolorState(initialNodes, NormalEdges(edgeList), whiteNodes,
                                                  <<>>, <<>>, "null", <<start>>)>>,
                       whiteNodes |-> whiteNodes,
                       grayNodes |-> <<>>,
                       blackNodes |-> <<>>,
                       stack |-> <<start>>,
                       parent |-> <<>>])

\* ======================================================== hashTableSearch
\* Keys are strings, held as the sequences of their char codes. A bucket is its
\* chain of nodes [key, value], the head first; null is the empty chain.

\* const size = 10
size == 10

\* ((hash << 5) - hash + key.charCodeAt(i)) & 0xffffffff on the 32-bit integer
\* hash: 31 * hash + code modulo 2^32, computed on 16-bit halves and read as a
\* signed 32-bit integer
HashStep(h, code) ==
    LET lo == h % 65536
        hi == (h \div 65536) % 65536
        lo1 == lo * 31 + code
        hi1 == (hi * 31 + (lo1 \div 65536)) % 65536
    IN  (IF hi1 >= 32768 THEN hi1 - 65536 ELSE hi1) * 65536 + (lo1 % 65536)

\* for (let i = 0; i < key.length; i++), from index i on
RECURSIVE HashFor(_, _, _)
HashFor(key, h, i) ==
    IF i < Len(key) THEN HashFor(key, HashStep(h, At(key, i)), i + 1) ELSE h

\* Math.abs
Abs(n) == IF n < 0 THEN -n ELSE n

\* a % b of JavaScript: the remainder has the sign of a
Rem(a, b) == IF a < 0 THEN -((-a) % b) ELSE a % b

hash(key) == Rem(Abs(HashFor(key, 0, 0)), size)

\* current.key === searchKey
SameKey_Never(key, searchKey) == FALSE

SameKey(key, searchKey) == key = searchKey

\* inserting keys[i] from index i on: a new node goes to the end of its bucket's chain
RECURSIVE InsertFor(_, _, _, _)
InsertFor(keys, values, buckets, i) ==
    IF i < Len(keys)
    THEN LET index == hash(At(keys, i))
             newNode == [key |-> At(keys, i), value |-> At(values, i)]
         IN  InsertFor(keys, values, SetAt(buckets, index, Append(At(buckets, index), newNode)), i + 1)
    ELSE buckets

HashTableState(buckets, searchKey, currentBucket, currentNode, found, searchPath, hashValue) ==
    [buckets |-> buckets, searchKey |-> searchKey, currentBucket |-> currentBucket,
     currentNode |-> currentNode, found |-> found, searchPath |-> searchPath,
     hashValue |-> hashValue]

\* while (current !== null), current being node nodeIndex of the chain
RECURSIVE ChainWhile(_, _, _, _, _, _)
ChainWhile(buckets, chain, searchKey, hashValue, states, nodeIndex) ==
    IF nodeIndex < Len(chain)
    THEN LET current == At(chain, nodeIndex)
             s1 == Append(states, HashTableState(buckets, searchKey, hashValue, nodeIndex,
                                                 SameKey(current.key, searchKey),
                                                 <<hashValue>>, hashValue))
         IN  IF SameKey(current.key, searchKey)
             THEN Append(s1, HashTableState(buckets, searchKey, hashValue, nodeIndex, TRUE,
                                            <<hashValue>>, hashValue))
             ELSE IF nodeIndex + 1 < Len(chain)
             THEN ChainWhile(buckets, chain, searchKey, hashValue,
                             Append(s1, HashTableState(buckets, searchKey, hashValue, nodeIndex + 1,
                                                       FALSE, <<hashValue>>, hashValue)),
                             nodeIndex + 1)
             ELSE ChainWhile(buckets, chain, searchKey, hashValue, s1, nodeIndex + 1)
    ELSE Append(states, HashTableState(buckets, searchKey, hashValue, -1, FALSE,
                                       <<hashValue>>, hashValue))

hashTableSearch(keys, values, searchKey) ==
    LET buckets == InsertFor(keys, values, [k \in 1..size |-> <<>>], 0)
        hashValue == hash(searchKey)
        s0 == <<HashTableState(buckets, searchKey, -1, -1, FALSE, <<>>, -1),
                HashTableState(buckets, searchKey, -1, -1, FALSE, <<>>, hashValue)>>
        targetBucket == At(buckets, hashValue)
    IN  IF targetBucket = <<>>
        THEN Append(s0, HashTableState(buckets, searchKey, hashValue, -1, FALSE,
                                       <<hashValue>>, hashValue))
        ELSE ChainWhile(buckets, targetBucket, searchKey, hashValue,
                        Append(s0, HashTableState(buckets, searchKey, hashValue, 0, FALSE,
                                                  <<hashValue>>, hashValue)),
                        0)

\* ------------------------------------------------------ AlgorithmService
getDefaultSortingData == <<64, 34, 25, 12, 22, 11, 90, 45, 78, 33>>

\* the default input, cut to the bound
DefaultData == SubSeq(getDefaultSortingData, 1, DataLen)

\* [...values].sort((a, b) => a - b)
RECURSIVE SortAscending(_)
SortAscending(values) ==
    IF values = <<>>
    THEN <<>>
    ELSE LET least == CHOOSE m \in Elems(values) : \A v \in Elems(values) : m <= v
             k == CHOOSE i \in DOMAIN values : values[i] = least
         IN  <<least>> \o SortAscending(SubSeq(values, 1, k - 1) \o SubSeq(values, k + 1, Len(values)))

\* ['apple', 'banana', 'cherry', 'date', 'elderberry', 'fig', 'grape']
ServiceKeys ==
    <<<<97, 112, 112, 108, 101>>, <<98, 97, 110, 97, 110, 97>>,
      <<99, 104, 101, 114, 114, 121>>, <<100, 97, 116, 101>>,
      <<101, 108, 100, 101, 114, 98, 101, 114, 114, 121>>, <<102, 105, 103>>,
      <<103, 114, 97, 112, 101>>>>

\* searchKey = 'cherry'
ServiceSearchKey == <<99, 104, 101, 114, 114, 121>>

\* the hash table case: keys and values.slice(0, keys.length); the default data has
\* a value for every key, and on an input cut to the bound the keys are cut with it
ServiceHashTable(values) ==
    LET n == IF Len(values) < Len(ServiceKeys) THEN Len(values) ELSE Len(ServiceKeys)
    IN  hashTableSearch(SubSeq(ServiceKeys, 1, n), SubSeq(values, 1, n), ServiceSearchKey)

generateSortingStates(algorithmId, values) ==
    CASE algorithmId = "bubble-sort" -> bubbleSort(values)
      [] algorithmId = "insertion-sort" -> insertionSort(values)
      [] algorithmId = "merge-sort" -> mergeSort(values)
      [] algorithmId = "quick-sort" -> quickSort(values)
      [] algorithmId = "linear-search" -> linearSearch(values, At(values, Len(values) \div 2))
      [] algorithmId = "binary-search" ->
            LET sortedValues == SortAscending(values)
            IN  binarySearch(sortedValues, At(sortedValues, Len(sortedValues) \div 2))
      [] algorithmId = "hash-table-search" -> ServiceHashTable(values)
      [] OTHER -> <<>>

\* aStar(nodes, edges, startNode, endNode || 'F')
OrF(end) == IF end = "" THEN "F" ELSE end

generateGraphStates(algorithmId, nodes, edgeList, start, end) ==
    CASE algorithmId = "breadth-first-search" -> breadthFirstSearch(nodes, edgeList, start, end).states
      [] algorithmId = "depth-first-search" -> depthFirstSearch(nodes, edgeList, start, end).states
      [] algorithmId = "tricolor-algorithm" -> tricolorAlgorithm(nodes, edgeList, start, end).states
      [] algorithmId = "dijkstra" -> dijkstra(nodes, edgeList, start, end).states
      [] algorithmId = "a-star" -> aStar(nodes, edgeList, start, OrF(end)).states
      [] OTHER -> <<>>

\* a node of the default graph
DefaultNode(id, x, y) == [id |-> id, x |-> x, y |-> y, status |-> "unvisited"]

\* an edge of the default graph
DefaultEdge(from, to, weight) == [from |-> from, to |-> to, weight |-> weight, status |-> "normal"]

getDefaultGraphData ==
    [nodes |-> <<DefaultNode("A", 50, 50), DefaultNode("B", 150, 50), DefaultNode("C", 250, 50),
                 DefaultNode("D", 350, 50), DefaultNode("E", 100, 150), DefaultNode("F", 200, 150),
                 DefaultNode("G", 300, 150), DefaultNode("H", 50, 250), DefaultNode("I", 150, 250),
                 DefaultNode("J", 250, 250), DefaultNode("K", 350, 250)>>,
     edges |-> <<DefaultEdge("A", "B", 4), DefaultEdge("A", "E", 2), DefaultEdge("B", "C", 3),
                 DefaultEdge("B", "F", 5), DefaultEdge("C", "D", 1), DefaultEdge("C", "G", 2),
                 DefaultEdge("D", "G", 3), DefaultEdge("E", "F", 6), DefaultEdge("E", "H", 4),
                 DefaultEdge("F", "G", 2), DefaultEdge("F", "I", 3), DefaultEdge("G", "J", 5),
                 DefaultEdge("H", "I", 2), DefaultEdge("I", "J", 4), DefaultEdge("J", "K", 1)>>]

\* the sorts
SortIds == {"bubble-sort", "insertion-sort", "merge-sort", "quick-sort"}

\* the ids generateStates routes to generateSortingStates
ArrayRoute == SortIds \cup {"linear-search", "hash-table-search"}

\* the ids generateStates routes to generateGraphStates
GraphRoute == {"breadth-first-search", "depth-first-search", "dijkstra", "a-star"}

\* the ids of the algorithm catalog
Catalog ==
    {"bubble-sort", "insertion-sort", "merge-sort", "quick-sort",
     "binary-search", "hash-table-search", "linear-search",
     "breadth-first-search", "depth-first-search", "tricolor-algorithm",
     "dijkstra", "a-star"}

\* what generateStates computes for an id that is not the current one
RoutedStates(algorithmId) ==
    IF algorithmId \in ArrayRoute
    THEN generateSortingStates(algorithmId, DefaultData)
    ELSE IF algorithmId \in GraphRoute
    THEN generateGraphStates(algorithmId, getDefaultGraphData.nodes, getDefaultGraphData.edges, "A", "F")
    ELSE <<>>

\* the traces of the catalog ids on the default inputs, computed once
DefaultTraces == [id \in Catalog |-> RoutedStates(id)]

\* the ids handed to the store when its operations are called in any order: the
\* sorts, an array id and a graph id the store routes, a catalog id it does not
StoreIds == SortIds \cup {"linear-search", "breadth-first-search", "binary-search"}

\* the ids the page is opened with
PageIds == {"bubble-sort", "quick-sort", "binary-search"}

\* ================================================================ state
VARIABLES
    \* trace generators, run on their own
    input,            \* the array handed to the generator
    generator,        \* the generator that ran, "none" before
    trace,            \* the trace it returned
    pushed,           \* history: every snapshot with the contents it had when pushed
    target,           \* the value or key a search generator looks for, 0 for a sort
    edges,            \* the edges handed to a graph generator (input holds the nodes)
    startNode,        \* the start id handed to a graph generator, "" for none
    endNode,          \* the goal id handed to a graph generator, "" for none
    path,             \* history: what reconstructPath returned, <<>> when it was not called
    \* useStore
    states,           \* the store's trace
    statesRef,        \* the identity of the array object held in states
    currentAlgorithm, \* the selected id, "null" for null
    calls,            \* history: the last two store calls
    \* Visualiser
    mounted,          \* the component instance exists
    currentState,     \* useState(0): the playback position
    isPlaying,        \* useState(false)
    speed,            \* useState(1000)
    renderedState,    \* currentState as the handlers of the last committed render closed over it
    renderedPlaying,  \* isPlaying as the last committed render saw it
    effectDeps,       \* [isPlaying, states.length, speed] of the last run of the animation effect
    intervalRef,      \* intervalRef.current, 0 for null
    timers,           \* the live intervals: [id, length, delay], length and delay as the callback closed over them
    \* history of the playback
    lastEvent,        \* the handler that ran last
    run,              \* [ticks, clean]: ticks since the last play(), and whether only ticks followed it
    \* GifExporter
    canvasRef,        \* whether the exporter was handed the Visualiser's canvas ref
    isExporting,      \* useState(false)
    exportAt,         \* the await handleExport is suspended at, "idle" when it is not running
    exportStates,     \* states as the running handleExport closed over it
    exportIndex,      \* handleExport's loop index i
    frames,           \* handleExport's frames array
    \* ffmpegService
    isLoaded,         \* FFmpegService.isLoaded
    ffmpeg,           \* FFmpegService.ffmpeg: "null" or "instance"
    \* history of the export
    events,           \* every progress event of the last export, in the order delivered
    outcome,          \* how the last handleExport ended: "none", "running", "downloaded", "caught"
    artifact,         \* the frames encoded in the blob handed to downloadBlob, <<>> for none
    \* ffmpegLoaderRuntime
    isClient,         \* typeof window !== 'undefined'
    ffmpegModule,     \* whether ffmpegModule holds the FFmpeg class
    utilModule,       \* whether utilModule holds fetchFile and toBlobURL
    loadPromise,      \* the cached promise: the number of the load it belongs to, 0 for null
    \* history of the loader
    loads,            \* every load started: [state, epoch], state "pending", "true" or "false"
    handed,           \* every call of loadFFmpegModules: [promise, epoch, late], promise 0 for a plain
                      \* false, late when the promise had settled before the call
    resets            \* how often resetLoader was called

genVars == <<input, generator, trace, pushed, target, edges, startNode, endNode, path>>
storeVars == <<states, statesRef, currentAlgorithm, calls>>
hookVars == <<currentState, isPlaying, speed>>
viewVars == <<mounted, currentState, isPlaying, speed, renderedState, renderedPlaying,
              effectDeps, intervalRef, timers, lastEvent, run>>
exporterVars == <<canvasRef, isExporting, exportAt, exportStates, exportIndex, frames,
                  isLoaded, ffmpeg, events, outcome, artifact>>
loaderVars == <<isClient, ffmpegModule, utilModule, loadPromise, loads, handed, resets>>
exportVars == <<exporterVars, loaderVars>>
vars == <<input, generator, trace, pushed, target, edges, startNode, endNode, path, states, statesRef, currentAlgorithm, calls,
          mounted, currentState, isPlaying, speed, renderedState, renderedPlaying,
          effectDeps, intervalRef, timers, lastEvent, run,
          canvasRef, isExporting, exportAt, exportStates, exportIndex, frames,
          isLoaded, ffmpeg, events, outcome, artifact,
          isClient, ffmpegModule, utilModule, loadPromise, loads, handed, resets>>

\* the keys of the service: apple, banana, cherry, date, elderberry, fig, grape
HashKeys ==
    {<<97, 112, 112, 108, 101>>, <<98, 97, 110, 97, 110, 97>>,
     <<99, 104, 101, 114, 114, 121>>, <<100, 97, 116, 101>>,
     <<101, 108, 100, 101, 114, 98, 101, 114, 114, 121>>, <<102, 105, 103>>,
     <<103, 114, 97, 112, 101>>}

\* the lists of up to MaxKeys distinct keys
KeyLists ==
    {ks \in UNION {[1..n -> HashKeys] : n \in 0..MaxKeys} :
        \A i \in DOMAIN ks : \A j \in DOMAIN ks : i # j => ks[i] # ks[j]}

\* the nodes the bounded graphs are made of, laid out on a 3 by 4 rectangle
NodePool ==
    <<[id |-> "A", x |-> 0, y |-> 0], [id |-> "B", x |-> 3, y |-> 0],
      [id |-> "C", x |-> 3, y |-> 4], [id |-> "D", x |-> 0, y |-> 4]>>

\* the weights an edge of a bounded graph can have
Weights == {1, 2}

\* the edges that can join the first n nodes of the pool
EdgeChoices(n) ==
    UNION {{[from |-> NodePool[i].id, to |-> NodePool[j].id, weight |-> w] :
               j \in (i + 1)..n, w \in Weights} : i \in 1..n}

\* the edge lists over the first n nodes of the pool
EdgeLists(n) == UNION {[1..m -> EdgeChoices(n)] : m \in 0..MaxEdges}

\* the positions of the speed slider within the bound
Speeds == {SpeedMin + k * SpeedStep : k \in 0..MaxSpeedSteps} \cup {DefaultSpeed}

\* the input arrays of the generators
Inputs == UNION {[1..n -> 1..MaxVal] : n \in 1..MaxN}

\* ------------------------------------------------- interval timers (host)
\* setInterval returns an id no live timer and no held reference carries
NewTimerId(live, ref) == CHOOSE id \in 1..(Cardinality(live) + 2) :
                            id # ref /\ \A t \in live : t.id # id

\* clearInterval(id)
clearInterval(live, id) == {t \in live : t.id # id}

\* ------------------------------------------------- Visualiser: the effect
\* variant: the effect returns no cleanup
EffectCleanup_None(live, ref) == live

\* the cleanup the animation effect returns: if (intervalRef.current) clearInterval(...)
EffectCleanup(live, ref) == IF ref # 0 THEN clearInterval(live, ref) ELSE live

\* the body of the animation effect, after the cleanup of its previous run
AnimationEffect(live, ref, playing, length, delay) ==
    IF playing /\ length > 0
    THEN LET id == NewTimerId(live, ref)
         IN  [timers |-> live \cup {[id |-> id, length |-> length, delay |-> delay]}, ref |-> id]
    ELSE IF ref # 0
    THEN [timers |-> clearInterval(live, ref), ref |-> ref]
    ELSE [timers |-> live, ref |-> ref]

\* React renders and commits the component with the new hook state and props:
\* the handlers close over the new values, and the animation effect is cleaned
\* up and run again when one of its dependencies changed
Rerender ==
    /\ renderedState' = currentState'
    /\ renderedPlaying' = isPlaying'
    /\ LET deps == <<isPlaying', Len(states'), speed'>>
       IN  IF mounted /\ deps # effectDeps
           THEN LET e == AnimationEffect(EffectCleanup(timers, intervalRef), intervalRef,
                                         isPlaying', Len(states'), speed')
                IN  /\ timers' = e.timers
                    /\ intervalRef' = e.ref
                    /\ effectDeps' = deps
           ELSE UNCHANGED <<timers, intervalRef, effectDeps>>

\* ------------------------------------------------ Visualiser: the handlers
(* How React schedules the component.  A click or a slider change is a     *)
(* discrete event: its handler is the closure of the last committed        *)
(* render, and React renders and commits, and runs the effects of that     *)
(* commit, before the event returns; so each of these handlers ends with   *)
(* Rerender.  The interval callback runs outside any event: its updates    *)
(* are queued and rendered in a later scheduler turn (Commit), and until   *)
(* then the buttons and handlers on screen are those of the older render.  *)
(* Updater functions (prev => ...) are applied to the queued state in the  *)
(* order of the calls, so currentState and isPlaying hold the state the    *)
(* queue amounts to, renderedState and renderedPlaying the committed one.  *)
\* variant: the end test is off by one (prev > length - 1)
TickPosition_OffByOne(prev, length) == IF prev > length - 1 THEN prev ELSE prev + 1

\* the updater the interval passes to setCurrentState, for the length it closed over
TickPosition(prev, length) == IF prev >= length - 1 THEN prev ELSE prev + 1

\* the interval callback of timer t; React renders its update later (Commit)
Tick(t) ==
    /\ mounted
    /\ t \in timers
    /\ currentState' = TickPosition(currentState, t.length)
    /\ isPlaying' = IF currentState >= t.length - 1 THEN FALSE ELSE isPlaying
    /\ lastEvent' = "tick"
    /\ run' = IF run.clean /\ run.ticks < MaxTicks THEN [run EXCEPT !.ticks = run.ticks + 1] ELSE run
    /\ UNCHANGED <<speed, mounted, renderedState, renderedPlaying, effectDeps, intervalRef, timers>>
    /\ UNCHANGED <<genVars, storeVars, exportVars>>

\* the render React scheduled for the updates of a tick
Commit ==
    /\ mounted
    /\ currentState # renderedState \/ isPlaying # renderedPlaying
    /\ UNCHANGED <<hookVars, mounted, run>>
    /\ UNCHANGED <<genVars, storeVars, exportVars>>
    /\ lastEvent' = "commit"
    /\ Rerender

\* Play button (shown while the committed render has isPlaying false)
playAnimation ==
    /\ mounted
    /\ ~renderedPlaying
    /\ IF Len(states) > 0
       THEN /\ isPlaying' = TRUE
            /\ currentState' = 0
       ELSE UNCHANGED <<isPlaying, currentState>>
    /\ lastEvent' = "play"
    /\ run' = [ticks |-> 0, clean |-> Len(states) > 0]
    /\ UNCHANGED <<speed, mounted>>
    /\ UNCHANGED <<genVars, storeVars, exportVars>>
    /\ Rerender

\* Pause button (shown while the committed render has isPlaying true)
pauseAnimation ==
    /\ mounted
    /\ renderedPlaying
    /\ isPlaying' = FALSE
    /\ lastEvent' = "pause"
    /\ run' = [ticks |-> 0, clean |-> FALSE]
    /\ UNCHANGED <<currentState, speed, mounted>>
    /\ UNCHANGED <<genVars, storeVars, exportVars>>
    /\ Rerender

\* Reset button
resetAnimation ==
    /\ mounted
    /\ isPlaying' = FALSE
    /\ currentState' = 0
    /\ lastEvent' = "reset"
    /\ run' = [ticks |-> 0, clean |-> FALSE]
    /\ UNCHANGED <<speed, mounted>>
    /\ UNCHANGED <<genVars, storeVars, exportVars>>
    /\ Rerender

\* Next button: disabled={currentState >= states.length - 1}, then the handler's
\* own test, both on the position of the committed render
nextStep ==
    /\ mounted
    /\ ~(renderedState >= Len(states) - 1)
    /\ currentState' = IF renderedState < Len(states) - 1
                       THEN currentState + 1 ELSE currentState
    /\ lastEvent' = "next"
    /\ run' = [ticks |-> 0, clean |-> FALSE]
    /\ UNCHANGED <<isPlaying, speed, mounted>>
    /\ UNCHANGED <<genVars, storeVars, exportVars>>
    /\ Rerender

\* Previous button: disabled={currentState === 0}
prevStep ==
    /\ mounted
    /\ renderedState # 0
    /\ currentState' = IF renderedState > 0 THEN currentState - 1 ELSE currentState
    /\ lastEvent' = "prev"
    /\ run' = [ticks |-> 0, clean |-> FALSE]
    /\ UNCHANGED <<isPlaying, speed, mounted>>
    /\ UNCHANGED <<genVars, storeVars, exportVars>>
    /\ Rerender

\* the speed slider: onChange={(e) => setSpeed(Number(e.target.value))}
setSpeed(ms) ==
    /\ mounted
    /\ ms # speed
    /\ speed' = ms
    /\ lastEvent' = "speed"
    /\ run' = [ticks |-> 0, clean |-> FALSE]
    /\ UNCHANGED <<currentState, isPlaying, mounted>>
    /\ UNCHANGED <<genVars, storeVars, exportVars>>
    /\ Rerender

\* React destroys the instance: the cleanup of the animation effect runs
Unmount ==
    /\ mounted
    /\ mounted' = FALSE
    /\ timers' = EffectCleanup(timers, intervalRef)
    /\ lastEvent' = "unmount"
    /\ run' = [ticks |-> 0, clean |-> FALSE]
    /\ UNCHANGED <<hookVars, renderedState, renderedPlaying, effectDeps, intervalRef>>
    /\ UNCHANGED <<genVars, storeVars, exportVars>>

\* a new instance is mounted: fresh hooks and ref, first run of the effect
Mount ==
    /\ ~mounted
    /\ mounted' = TRUE
    /\ currentState' = 0
    /\ isPlaying' = FALSE
    /\ speed' = DefaultSpeed
    /\ renderedState' = 0
    /\ renderedPlaying' = FALSE
    /\ LET e == AnimationEffect(timers, 0, FALSE, Len(states), DefaultSpeed)
       IN  /\ timers' = e.timers
           /\ intervalRef' = e.ref
    /\ effectDeps' = <<FALSE, Len(states), DefaultSpeed>>
    /\ lastEvent' = "mount"
    /\ run' = [ticks |-> 0, clean |-> FALSE]
    /\ UNCHANGED <<genVars, storeVars, exportVars>>

\* ------------------------------------------------------------- useStore
\* a new array object: an identity the store does not hold
NewRef(ref) == IF ref = 1 THEN 2 ELSE 1

\* the record of a store call kept in the history
Called(op, id, ran, ref) ==
    LET c == [op |-> op, id |-> id, ran |-> ran, ref |-> ref]
    IN  IF Len(calls) < 2 THEN Append(calls, c) ELSE <<calls[2], c>>

\* variant: no memoisation guard
SameAlgorithm_Never(algorithmId, current) == FALSE

\* whether generateStates returns before generating
SameAlgorithm(algorithmId, current) == algorithmId = current

\* the Visualiser is rendered again with the store's new states
StoreChanged ==
    /\ UNCHANGED <<hookVars, mounted, lastEvent, run>>
    /\ Rerender

generateStates(algorithmId) ==
    /\ IF SameAlgorithm(algorithmId, currentAlgorithm)
       THEN /\ UNCHANGED <<states, statesRef, currentAlgorithm>>
            /\ calls' = Called("generateStates", algorithmId, FALSE, statesRef)
       ELSE /\ states' = DefaultTraces[algorithmId]
            /\ statesRef' = NewRef(statesRef)
            /\ currentAlgorithm' = algorithmId
            /\ calls' = Called("generateStates", algorithmId, algorithmId \in ArrayRoute \cup GraphRoute, NewRef(statesRef))
    /\ UNCHANGED <<genVars, exportVars>>
    /\ StoreChanged

\* set({ states: [] })
runAlgorithm ==
    /\ states' = <<>>
    /\ statesRef' = NewRef(statesRef)
    /\ calls' = Called("runAlgorithm", "", FALSE, NewRef(statesRef))
    /\ UNCHANGED currentAlgorithm
    /\ UNCHANGED <<genVars, exportVars>>
    /\ StoreChanged

setAlgorithm(algorithmId) ==
    /\ currentAlgorithm' = algorithmId
    /\ calls' = Called("setAlgorithm", algorithmId, FALSE, statesRef)
    /\ UNCHANGED <<states, statesRef>>
    /\ UNCHANGED <<genVars, exportVars>>
    /\ StoreChanged

\* ------------------------------------------------------------ GifExporter
(* handleExport is an async function: the click runs it up to its first    *)
(* await, and each await that settles resumes it in a later turn, so the   *)
(* store and the page can act in between.  exportAt names the await it is  *)
(* suspended at.  What the host does behind an await (canvas.toBlob, the   *)
(* download of the ffmpeg modules, the calls into ffmpeg) either succeeds  *)
(* or fails: a choice of the step.  The store hands the exporter array     *)
(* traces only, so renderBarChart is the branch captureFrame takes.        *)

\* state.name || []
Field(state, name) == IF name \in DOMAIN state THEN state[name] ELSE <<>>

\* Math.max(...values)
MaxOf(values) == CHOOSE m \in Elems(values) : \A v \in Elems(values) : v <= m

\* the if / else if chain that picks the colour of the bar at index
BarColor(state, index) ==
    IF index \in Elems(Field(state, "comparing")) THEN "yellow-400"
    ELSE IF index \in Elems(Field(state, "swapping")) THEN "red-400"
    ELSE IF index \in Elems(Field(state, "sorted")) THEN "green-400"
    ELSE IF index \in Elems(Field(state, "searching")) THEN "blue-400"
    ELSE IF index \in Elems(Field(state, "found")) THEN "green-500"
    ELSE "gray-500"

\* what renderBarChart draws: per bar its value, the maximum its height is
\* scaled by, and its colour
renderBarChart(state) ==
    LET values == Field(state, "values")
    IN  Copy([k \in DOMAIN values |->
                [value |-> values[k], maxValue |-> MaxOf(values),
                 color |-> BarColor(state, k - 1)]])

\* the pixels of the Visualiser's hidden canvas: nothing ever draws on it
HiddenCanvas == <<>>

\* canvasRef?.current: the ref was passed and the canvas is in the document
UsesCanvasRef(ref, current) == ref /\ current

\* the picture captureFrame(stateIndex) resolves with when nothing fails
FramePixels(stateIndex) ==
    IF UsesCanvasRef(canvasRef, mounted)
    THEN HiddenCanvas
    ELSE renderBarChart(At(exportStates, stateIndex))

\* a progress event; the percentage is the exact fraction num / den
ProgressEvent(num, den, stage) == [progress |-> <<num, den>>, stage |-> stage]

\* 10 + ((i / states.length) * 20)
LoopProgress(i, length) == ProgressEvent(10 * length + 20 * i, length, "processing")

\* variant: finally leaves the flag as it is
AfterFinally_Kept(exporting) == exporting

\* finally { setIsExporting(false) }
AfterFinally(exporting) == FALSE

\* the store and the Visualiser's playback are not touched by the exporter
ExportOnly == UNCHANGED <<genVars, storeVars, viewVars, canvasRef, loaderVars>>

\* catch (error) { setProgress(error) } finally { ... }; inner: the throw came out
\* of generateGifSimple's try, whose catch reports before it rethrows
Caught(delivered, inner) ==
    /\ events' = delivered \o (IF inner THEN <<ProgressEvent(0, 1, "error")>> ELSE <<>>)
                           \o <<ProgressEvent(0, 1, "error")>>
    /\ isExporting' = AfterFinally(isExporting)
    /\ exportAt' = "idle"
    /\ outcome' = "caught"
    /\ UNCHANGED artifact

\* the click on the export button, up to the first await (captureFrame(0))
handleExport ==
    /\ mounted
    /\ ~isExporting
    /\ Len(states) # 0
    /\ isExporting' = TRUE
    /\ events' = <<ProgressEvent(0, 1, "loading"), ProgressEvent(10, 1, "processing")>>
    /\ exportStates' = states
    /\ frames' = <<>>
    /\ exportIndex' = 0
    /\ exportAt' = "captureFrame"
    /\ outcome' = "running"
    /\ artifact' = <<>>
    /\ UNCHANGED <<isLoaded, ffmpeg>>
    /\ ExportOnly

\* await captureFrame(i) settled, with a frame or (ok = FALSE) with null, which
\* `if (frame) frames.push(frame)` leaves out; after the last one generateGifSimple
\* is called and runs up to its first await
CaptureFrame(ok) ==
    /\ exportAt = "captureFrame"
    /\ LET length == Len(exportStates)
           pushed1 == IF ok THEN Append(frames, FramePixels(exportIndex)) ELSE frames
           delivered == Append(events, LoopProgress(exportIndex, length))
       IN  /\ exportIndex' = exportIndex + 1
           /\ frames' = pushed1
           /\ IF exportIndex + 1 < length
              THEN /\ events' = delivered
                   /\ UNCHANGED <<isExporting, exportAt, outcome, artifact>>
              ELSE IF Len(pushed1) = 0
              THEN Caught(delivered, FALSE)
              ELSE /\ events' = delivered
                   /\ exportAt' = IF ~isLoaded THEN "load"
                                  ELSE IF ffmpeg = "null" THEN "unavailable"
                                  ELSE "deleteFile"
                   /\ UNCHANGED <<isExporting, outcome, artifact>>
    /\ UNCHANGED <<exportStates, isLoaded, ffmpeg>>
    /\ ExportOnly

\* what FFmpegService.load can come to: the modules are not available (it returns
\* with nothing changed), ffmpeg.load failed with and without the worker (the
\* instance is kept, not loaded), or the core is loaded
LoadResults == {"unavailable", "failed", "loaded"}

\* await this.load() settled; load never throws.  loadFFmpegModules caches its
\* promise; each call is let come out anew here, which only adds behaviours
Load(result) ==
    /\ exportAt = "load"
    /\ ffmpeg' = IF result = "unavailable" THEN ffmpeg ELSE "instance"
    /\ isLoaded' = (result = "loaded")
    /\ exportAt' = IF ffmpeg' = "null" THEN "unavailable" ELSE "deleteFile"
    /\ UNCHANGED <<isExporting, exportStates, exportIndex, frames, events, outcome, artifact>>
    /\ ExportOnly

\* if (!this.ffmpeg) throw: thrown in generateGifSimple before its try, caught by
\* handleExport
Unavailable ==
    /\ exportAt = "unavailable"
    /\ Caught(events, FALSE)
    /\ UNCHANGED <<exportStates, exportIndex, frames, isLoaded, ffmpeg>>
    /\ ExportOnly

\* a call into ffmpeg inside generateGifSimple's try threw
EncoderThrew ==
    /\ Caught(events, TRUE)
    /\ UNCHANGED <<exportStates, exportIndex, frames, isLoaded, ffmpeg>>
    /\ ExportOnly

\* an await of generateGifSimple settled and it goes on to its next one; the calls
\* into an instance whose core is not loaded all throw (ok => isLoaded below)
EncoderStep(event, next) ==
    /\ events' = Append(events, event)
    /\ exportAt' = next
    /\ UNCHANGED <<isExporting, exportStates, exportIndex, frames, isLoaded, ffmpeg,
                   outcome, artifact>>
    /\ ExportOnly

\* await this.ffmpeg.deleteFile('output.gif')
DeleteFile(ok) ==
    /\ exportAt = "deleteFile"
    /\ ok => isLoaded
    /\ IF ok THEN EncoderStep(ProgressEvent(0, 1, "processing"), "writeFile")
       ELSE EncoderThrew

\* the loop of await this.ffmpeg.writeFile(filename, frames[i])
WriteFiles(ok) ==
    /\ exportAt = "writeFile"
    /\ ok => isLoaded
    /\ IF ok THEN EncoderStep(ProgressEvent(20, 1, "encoding"), "exec")
       ELSE EncoderThrew

\* exec, readFile and the clean-up; generateGifSimple returns the blob and
\* handleExport hands it to downloadBlob
Exec(ok) ==
    /\ exportAt = "exec"
    /\ ok => isLoaded
    /\ IF ok
       THEN /\ events' = Append(events, ProgressEvent(100, 1, "complete"))
            /\ artifact' = frames
            /\ outcome' = "downloaded"
            /\ isExporting' = AfterFinally(isExporting)
            /\ exportAt' = "idle"
            /\ UNCHANGED <<exportStates, exportIndex, frames, isLoaded, ffmpeg>>
            /\ ExportOnly
       ELSE EncoderThrew

\* one step of a running export
ExportStep ==
    \/ \E ok \in BOOLEAN : CaptureFrame(ok)
    \/ \E result \in LoadResults : Load(result)
    \/ Unavailable
    \/ \E ok \in BOOLEAN : DeleteFile(ok)
    \/ \E ok \in BOOLEAN : WriteFiles(ok)
    \/ \E ok \in BOOLEAN : Exec(ok)

\* ------------------------------------------------ the generators, run alone
Generated(name, states0, pushed0) ==
    /\ generator = "none"
    /\ generator' = name
    /\ trace' = states0
    /\ pushed' = pushed0
    /\ UNCHANGED <<input, target, edges, startNode, endNode, path, storeVars, viewVars, exportVars>>

RunLinearSearch ==
    Generated("linearSearch", linearSearch(input, target), linearSearch(input, target))

\* binarySearch is called on arrays in ascending order
RunBinarySearch ==
    /\ \A k \in 1..(Len(input) - 1) : input[k] <= input[k + 1]
    /\ Generated("binarySearch", binarySearch(input, target), binarySearch(input, target))

RunBubbleSort == Generated("bubbleSort", bubbleSort(input), bubbleSort(input))

RunInsertionSort == Generated("insertionSort", insertionSort(input), insertionSort(input))

RunMergeSort == Generated("mergeSort", mergeSort(input), MergeSortRun(input).pushed)

RunQuickSort == Generated("quickSort", quickSort(input), quickSort(input))

\* hashTableSearch on the keys in input, with the values the service passes
RunHashTableSearch ==
    Generated("hashTableSearch",
              hashTableSearch(input, SubSeq(getDefaultSortingData, 1, Len(input)), target),
              hashTableSearch(input, SubSeq(getDefaultSortingData, 1, Len(input)), target))

\* a graph generator that returned the record r = [states, path]
Traversed(name, r) ==
    /\ generator = "none"
    /\ generator' = name
    /\ trace' = r.states
    /\ pushed' = r.states
    /\ path' = r.path
    /\ UNCHANGED <<input, target, edges, startNode, endNode, storeVars, viewVars, exportVars>>

RunBreadthFirstSearch ==
    Traversed("breadthFirstSearch", breadthFirstSearch(input, edges, startNode, endNode))

RunDepthFirstSearch ==
    Traversed("depthFirstSearch", depthFirstSearch(input, edges, startNode, endNode))

RunDijkstra == Traversed("dijkstra", dijkstra(input, edges, startNode, endNode))

RunAStar == Traversed("aStar", aStar(input, edges, startNode, endNode))

RunTricolorAlgorithm ==
    Traversed("tricolorAlgorithm", tricolorAlgorithm(input, edges, startNode, endNode))

\* ----------------------------------------------------- ffmpegLoaderRuntime
(* loadFFmpegModules runs up to its return in the turn of its caller: it   *)
(* hands out the cached promise, or stores a new one before the body of    *)
(* the load reaches its first await.  The load settles in a later turn.    *)
(* Every caller's own promise follows the promise it was handed.           *)

\* how many calls of the loader, and how many resets, a run is followed for
MaxCalls == 4
MaxResets == 2

\* variant: the cached promise is never found
Cached_Never(promise) == FALSE

\* if (loadPromise)
Cached(promise) == promise # 0

LoaderOnly == UNCHANGED <<genVars, storeVars, viewVars, exporterVars>>

\* a call of loadFFmpegModules, from FFmpegService.load or anywhere else
loadFFmpegModules ==
    /\ Len(handed) < MaxCalls
    /\ IF ~isClient
       THEN /\ handed' = Append(handed, [promise |-> 0, epoch |-> resets, late |-> FALSE])
            /\ UNCHANGED <<loadPromise, loads>>
       ELSE IF Cached(loadPromise)
       THEN /\ handed' = Append(handed, [promise |-> loadPromise, epoch |-> resets,
                                       late |-> loads[loadPromise].state # "pending"])
            /\ UNCHANGED <<loadPromise, loads>>
       ELSE /\ loads' = Append(loads, [state |-> "pending", epoch |-> resets])
            /\ loadPromise' = Len(loads) + 1
            /\ handed' = Append(handed, [promise |-> Len(loads) + 1, epoch |-> resets, late |-> FALSE])
    /\ UNCHANGED <<isClient, ffmpegModule, utilModule, resets>>
    /\ LoaderOnly

\* the body of a load comes to its return: true with the modules stored, false
\* when a module was not to be had or anything threw
LoadSettled(load, ok) ==
    /\ load \in DOMAIN loads
    /\ loads[load].state = "pending"
    /\ loads' = [loads EXCEPT ![load].state = IF ok THEN "true" ELSE "false"]
    /\ ffmpegModule' = (ok \/ ffmpegModule)
    /\ utilModule' = (ok \/ utilModule)
    /\ UNCHANGED <<isClient, loadPromise, handed, resets>>
    /\ LoaderOnly

resetLoader ==
    /\ resets < MaxResets
    /\ ffmpegModule' = FALSE
    /\ utilModule' = FALSE
    /\ loadPromise' = 0
    /\ resets' = resets + 1
    /\ UNCHANGED <<isClient, loads, handed>>
    /\ LoaderOnly

\* ======================================================= specifications
\* the Visualiser as the page first renders it over the given states
ViewInit(len) ==
    /\ mounted = TRUE
    /\ currentState = 0
    /\ isPlaying = FALSE
    /\ speed = DefaultSpeed
    /\ renderedState = 0
    /\ renderedPlaying = FALSE
    /\ effectDeps = <<FALSE, len, DefaultSpeed>>
    /\ intervalRef = 0
    /\ timers = {}
    /\ lastEvent = "mount"
    /\ run = [ticks |-> 0, clean |-> FALSE]

StoreInit ==
    /\ states = <<>>
    /\ statesRef = 1
    /\ currentAlgorithm = "null"
    /\ calls = <<>>

\* the exporter before any export, given the canvas ref (the Visualiser's use of it)
\* or not; the service singleton as constructed
ExporterIdle(ref) ==
    /\ canvasRef = ref
    /\ isExporting = FALSE
    /\ exportAt = "idle"
    /\ exportStates = <<>>
    /\ exportIndex = 0
    /\ frames = <<>>
    /\ isLoaded = FALSE
    /\ ffmpeg = "null"
    /\ events = <<>>
    /\ outcome = "none"
    /\ artifact = <<>>

\* the loader module as it is first evaluated, in the browser or on the server
LoaderIdle(client) ==
    /\ isClient = client
    /\ ffmpegModule = FALSE
    /\ utilModule = FALSE
    /\ loadPromise = 0
    /\ loads = <<>>
    /\ handed = <<>>
    /\ resets = 0

\* the exporter and the loader of a page open in the browser
ExportIdle(ref) == ExporterIdle(ref) /\ LoaderIdle(TRUE)

\* no generator call: nothing ran and nothing was returned
NoRun ==
    /\ generator = "none"
    /\ trace = <<>>
    /\ pushed = <<>>
    /\ path = <<>>

\* no graph arguments
NoGraph ==
    /\ edges = <<>>
    /\ startNode = ""
    /\ endNode = ""

GenIdle ==
    /\ input = <<>>
    /\ target = 0
    /\ NoGraph
    /\ NoRun

\* the page: the store and the Visualiser over it; the page's effect calls
\* generateStates with the id of the URL, the Run button calls runAlgorithm
Init == GenIdle /\ StoreInit /\ ViewInit(0) /\ ExportIdle(TRUE)

ViewNext ==
    \/ \E t \in timers : Tick(t)
    \/ Commit
    \/ playAnimation
    \/ pauseAnimation
    \/ resetAnimation
    \/ nextStep
    \/ prevStep
    \/ \E ms \in Speeds : setSpeed(ms)
    \/ Unmount
    \/ Mount

Next ==
    \/ ViewNext
    \/ \E id \in PageIds : generateStates(id)
    \/ runAlgorithm

Spec == Init /\ [][Next]_vars

\* the store alone, its operations called in any order
StoreNext ==
    \/ \E id \in StoreIds : generateStates(id)
    \/ \E id \in StoreIds : setAlgorithm(id)
    \/ runAlgorithm

SpecStore == Init /\ [][StoreNext]_vars

\* the ids the page is opened with while exporting: one with a trace, one without
ExportIds == {"bubble-sort", "binary-search"}

\* the page with the exporter in the Visualiser's controls: the store replaces the
\* trace (the page's effect), the user steps through it and exports it; the
\* exporter is given the Visualiser's canvas ref, or is mounted without one
ExportInit == GenIdle /\ StoreInit /\ ViewInit(0) /\ \E ref \in BOOLEAN : ExportIdle(ref)

ExportNext ==
    \/ \E id \in ExportIds : generateStates(id)
    \/ nextStep
    \/ handleExport
    \/ ExportStep

SpecExport == ExportInit /\ [][ExportNext]_vars

\* every await of a running export settles: toBlob calls back, and the promises
\* of the module loader and of ffmpeg resolve or reject
FairExport == SpecExport /\ WF_vars(ExportStep)

\* the weights of the simple graphs: a light and a heavy edge
PathWeights == {1, 3}

\* the lists of up to MaxEdges + 1 edges over the first n nodes of the pool, no two
\* of them joining the same pair of nodes
SimpleEdgeLists(n) ==
    LET choices == UNION {{[from |-> NodePool[i].id, to |-> NodePool[j].id, weight |-> w] :
                              j \in (i + 1)..n, w \in PathWeights} : i \in 1..n}
    IN  {l \in UNION {[1..m -> choices] : m \in 0..(MaxEdges + 1)} :
            \A a \in DOMAIN l : \A b \in DOMAIN l :
                a # b => (l[a].from # l[b].from \/ l[a].to # l[b].to)}

\* a generator run on a bounded simple graph, from any of its nodes to any of its nodes
AStarInit ==
    /\ \E n \in 1..MaxNodes :
          /\ input = SubSeq(NodePool, 1, n)
          /\ edges \in SimpleEdgeLists(n)
          /\ startNode \in {NodePool[k].id : k \in 1..n}
          /\ endNode \in {NodePool[k].id : k \in 1..n}
    /\ target = 0
    /\ NoRun
    /\ StoreInit
    /\ ViewInit(0)
    /\ ExportIdle(TRUE)

SpecAStar == AStarInit /\ [][RunAStar]_vars

\* the generators that reconstruct a path, each run on a bounded simple graph
PathsNext ==
    \/ RunBreadthFirstSearch
    \/ RunDepthFirstSearch
    \/ RunDijkstra
    \/ RunAStar

SpecPaths == AStarInit /\ [][PathsNext]_vars

\* the edge lists that name a node the node list does not hold: up to MaxEdges
\* edges over the first n + 1 nodes of the pool, for a list of the first n
DanglingEdgeLists(n) ==
    {l \in EdgeLists(n + 1) :
        \E k \in DOMAIN l : l[k].to = NodePool[n + 1].id \/ l[k].from = NodePool[n + 1].id}

\* a graph generator handed an edge that leaves the node list
DanglingInit ==
    /\ \E n \in 1..(MaxNodes - 1) :
          /\ input = SubSeq(NodePool, 1, n)
          /\ edges \in DanglingEdgeLists(n)
          /\ startNode \in {NodePool[k].id : k \in 1..n}
          /\ endNode \in {NodePool[k].id : k \in 1..n}
    /\ target = 0
    /\ NoRun
    /\ StoreInit
    /\ ViewInit(0)
    /\ ExportIdle(TRUE)

DanglingNext ==
    \/ RunBreadthFirstSearch
    \/ RunDepthFirstSearch
    \/ RunDijkstra

SpecDangling == DanglingInit /\ [][DanglingNext]_vars

\* the loader alone: calls, the settling of loads and resets in any order
LoaderInit ==
    /\ GenIdle
    /\ StoreInit
    /\ ViewInit(0)
    /\ ExporterIdle(TRUE)
    /\ \E client \in BOOLEAN : LoaderIdle(client)

LoaderNext ==
    \/ loadFFmpegModules
    \/ \E load \in 1..MaxCalls : \E ok \in BOOLEAN : LoadSettled(load, ok)
    \/ resetLoader

SpecLoader == LoaderInit /\ [][LoaderNext]_vars

\* the page opened with each id of the catalog in turn
CatalogNext == \E id \in Catalog : generateStates(id)

SpecCatalog == Init /\ [][CatalogNext]_vars

\* the Visualiser over one trace that is never replaced: the trace of a sort on a
\* prefix of the default data
PlaybackInit ==
    /\ GenIdle
    /\ \E id \in SortIds, n \in 1..DataLen :
          /\ states = generateSortingStates(id, SubSeq(getDefaultSortingData, 1, n))
          /\ currentAlgorithm = id
    /\ statesRef = 2
    /\ calls = <<>>
    /\ ViewInit(Len(states))
    /\ ExportIdle(TRUE)

SpecPlayback == PlaybackInit /\ [][ViewNext]_vars

\* the interval keeps firing while it is live, and React runs the render it scheduled
FairPlayback == SpecPlayback /\ WF_vars(\E t \in timers : Tick(t)) /\ WF_vars(Commit)

\* a generator run on a bounded input
GenInit ==
    /\ input \in Inputs
    /\ target = 0
    /\ NoGraph
    /\ NoRun
    /\ StoreInit
    /\ ViewInit(0)
    /\ ExportIdle(TRUE)

GenNext ==
    \/ RunBubbleSort
    \/ RunInsertionSort
    \/ RunMergeSort
    \/ RunQuickSort

SpecGen == GenInit /\ [][GenNext]_vars

\* a search generator run on a bounded array and target
SearchInit ==
    /\ input \in Inputs
    /\ target \in 1..MaxVal
    /\ NoGraph
    /\ NoRun
    /\ StoreInit
    /\ ViewInit(0)
    /\ ExportIdle(TRUE)

SearchNext ==
    \/ RunLinearSearch
    \/ RunBinarySearch

SpecSearch == SearchInit /\ [][SearchNext]_vars

\* hashTableSearch run on a bounded list of distinct keys and a key to look for
HashInit ==
    /\ input \in KeyLists
    /\ target \in HashKeys
    /\ NoGraph
    /\ NoRun
    /\ StoreInit
    /\ ViewInit(0)
    /\ ExportIdle(TRUE)

SpecHash == HashInit /\ [][RunHashTableSearch]_vars

\* a graph generator run on a bounded graph, from any of its nodes to any of its nodes
GraphInit ==
    /\ \E n \in 1..MaxNodes :
          /\ input = SubSeq(NodePool, 1, n)
          /\ edges \in EdgeLists(n)
          /\ startNode \in {NodePool[k].id : k \in 1..n}
          /\ endNode \in {NodePool[k].id : k \in 1..n}
    /\ target = 0
    /\ NoRun
    /\ StoreInit
    /\ ViewInit(0)
    /\ ExportIdle(TRUE)

GraphNext ==
    \/ RunBreadthFirstSearch
    \/ RunDepthFirstSearch
    \/ RunDijkstra
    \/ RunAStar
    \/ RunTricolorAlgorithm

SpecGraph == GraphInit /\ [][GraphNext]_vars

\* =============================================================== claims
Min(a, b) == IF a < b THEN a ELSE b
Max(a, b) == IF a > b THEN a ELSE b

\* v is in ascending order
Ascending(v) == \A k \in 1..(Len(v) - 1) : v[k] <= v[k + 1]

\* v holds the elements of w, each as often as w does
Permutation(v, w) ==
    /\ Len(v) = Len(w)
    /\ \A x \in Elems(v) \cup Elems(w) :
          Cardinality({k \in DOMAIN v : v[k] = x}) = Cardinality({k \in DOMAIN w : w[k] = x})

\* every index of an array of length n
AllIndices(n) == 0..(n - 1)

\* C1: over a trace that is never replaced, whatever the order of play, pause,
\* reset, next, previous and ticks, the playback position stays within
\* 0..length-1, also when a step handler that tested the position of an older
\* render runs after a tick moved it.
C1_PositionInBounds ==
    mounted => (0 <= currentState /\ currentState <= Len(states) - 1)

\* C2: whenever the store replaces the trace, the Visualiser's cursor is
\* discarded with it: right after the replacement the position is 0 and
\* playback is not running.
C2_CursorDiscarded ==
    [][(statesRef' # statesRef /\ mounted) => (currentState' = 0 /\ ~isPlaying')]_vars

\* C3: generateStates(id) called directly after generateStates(id) runs no
\* generator and leaves the store's states the very same object.
C3_SameIdNoRegeneration ==
    [][(/\ calls' # calls
        /\ Len(calls) >= 1
        /\ calls[Len(calls)].op = "generateStates"
        /\ calls'[Len(calls')].op = "generateStates"
        /\ calls'[Len(calls')].id = calls[Len(calls)].id)
       => (/\ statesRef' = statesRef
           /\ states' = states
           /\ ~calls'[Len(calls')].ran)]_vars

\* a generator ran for the first call, and the same id was passed again
C3_Witness ==
    /\ Len(calls) = 2
    /\ calls[1].op = "generateStates" /\ calls[1].ran
    /\ calls[2].op = "generateStates" /\ calls[2].id = calls[1].id
    /\ Len(states) > 1

\* C4: play() puts the position back to 0 only when it is length-1; from a
\* position below length-1 it keeps the position; either way playback is
\* running afterwards with an interval at the current speed.
C4_PlayKeepsPosition ==
    [][(lastEvent' = "play" /\ Len(states) > 0)
       => (/\ currentState' = IF currentState = Len(states) - 1 THEN 0 ELSE currentState
           /\ isPlaying'
           /\ \E t \in timers' : t.delay = speed')]_vars

\* C5: while playing, a tick moves the position up by exactly one when it is
\* below length-1, and the first tick that finds it at length-1 leaves it and
\* stops playback; so a playback started by play() and followed by ticks only is
\* at position k after k ticks, at length-1 after length-1 ticks, stopped by the
\* next tick, and it always stops.
C5_TickAdvance ==
    /\ [][(lastEvent' = "tick" /\ isPlaying)
          => IF currentState < Len(states) - 1
             THEN currentState' = currentState + 1 /\ isPlaying'
             ELSE currentState' = currentState /\ ~isPlaying']_vars
    /\ []((run.clean /\ run.ticks < MaxTicks)
          => (/\ currentState = Min(run.ticks, Len(states) - 1)
              /\ isPlaying = (run.ticks <= Len(states) - 1)))
    /\ ((run.clean /\ isPlaying) ~> (~isPlaying \/ ~run.clean))

\* play() and then ticks only: the tick after position length-1 stopped playback
C5_Witness ==
    /\ run.clean
    /\ Len(states) > 1
    /\ run.ticks = Len(states)
    /\ currentState = Len(states) - 1
    /\ ~isPlaying

\* C6: Next and Previous move the position only while playback is not running;
\* then they move it by one, clamped to 0..length-1; they never change the
\* play state.
C6_StepOnlyWhenNotPlaying ==
    [][(lastEvent' \in {"next", "prev"})
       => (/\ isPlaying' = isPlaying
           /\ currentState' =
                 IF isPlaying THEN currentState
                 ELSE IF lastEvent' = "next" THEN Min(currentState + 1, Len(states) - 1)
                 ELSE Max(currentState - 1, 0))]_vars

\* C7: at most one interval is live at any time, it is the one the last run of
\* the effect scheduled (for the current length and speed), and none is live
\* once the component is unmounted.
C7_OneLiveInterval ==
    /\ Cardinality(timers) <= 1
    /\ ~mounted => timers = {}
    /\ \A t \in timers :
          /\ t.id = intervalRef
          /\ t.length = Len(states)
          /\ t.delay = speed
          /\ renderedPlaying

\* the speed changed while playing: the effect ran again and scheduled a second interval
C7_Witness ==
    /\ lastEvent = "speed"
    /\ timers # {}
    /\ intervalRef = 2

\* C8: the last snapshot of bubbleSort holds the input in ascending order and
\* marks every index sorted.
C8_BubbleFinal ==
    generator = "bubbleSort"
    => (/\ Ascending(Final(trace).values)
        /\ Permutation(Final(trace).values, input)
        /\ Elems(Final(trace).sorted) = AllIndices(Len(input)))

\* C9: the last snapshot of insertionSort, mergeSort and quickSort holds the
\* input in ascending order, marks every index sorted and has empty comparing
\* and swapping.
C9_SortFinal ==
    generator \in {"insertionSort", "mergeSort", "quickSort"}
    => (/\ Len(trace) >= 1
        /\ Ascending(Final(trace).values)
        /\ Permutation(Final(trace).values, input)
        /\ Elems(Final(trace).sorted) = AllIndices(Len(input))
        /\ Final(trace).comparing = <<>>
        /\ Final(trace).swapping = <<>>)

\* C10: when a generator returns, every snapshot of its trace has the contents
\* it had when it was pushed.
C10_SnapshotsNotMutated ==
    generator # "none" => \A k \in DOMAIN trace : trace[k] = pushed[k]

\* C11: in every sort generator a comparison of two equal elements emits only
\* the 'comparing' snapshot: the snapshot that follows a comparison of a tie
\* (in quickSort, of an element equal to the pivot) is never a 'swapping' one.
C11_TieNoSwap ==
    generator \in {"bubbleSort", "insertionSort", "mergeSort", "quickSort"}
    => \A k \in 1..(Len(trace) - 1) :
          (/\ Len(pushed[k].comparing) = 2
           /\ At(pushed[k].values, pushed[k].comparing[1])
                 = At(pushed[k].values, pushed[k].comparing[2]))
          => pushed[k + 1].swapping = <<>>

\* C12: the last snapshot of linearSearch and of binarySearch (on an ascending
\* array) has empty comparing and searching; its found is <<i>> with
\* values[i] = target when the target occurs in the array and empty when it
\* does not; and no snapshot after one with a non-empty found has a non-empty
\* searching.
C12_SearchFinal ==
    generator \in {"linearSearch", "binarySearch"}
    => (/\ Final(trace).comparing = <<>>
        /\ Final(trace).searching = <<>>
        /\ IF target \in Elems(input)
           THEN /\ Len(Final(trace).found) = 1
                /\ Final(trace).found[1] \in AllIndices(Len(input))
                /\ At(input, Final(trace).found[1]) = target
                /\ At(Final(trace).values, Final(trace).found[1]) = target
           ELSE Final(trace).found = <<>>
        /\ \A k \in DOMAIN trace : \A l \in DOMAIN trace :
              (k < l /\ trace[k].found # <<>>) => trace[l].searching = <<>>)

\* a binary search that narrowed its range at least once and then found the target
C12_Witness ==
    /\ generator = "binarySearch"
    /\ Len(trace) >= 5
    /\ Final(trace).found # <<>>

\* the nodes that edges of the graph join to a node of the set, and the set itself
Step(edgeList, set) ==
    set \cup {e.to : e \in {d \in Elems(edgeList) : d.from \in set}}
        \cup {e.from : e \in {d \in Elems(edgeList) : d.to \in set}}

\* the nodes reachable from the set over the edges, taken as undirected
RECURSIVE ReachableFrom(_, _)
ReachableFrom(edgeList, set) ==
    IF Step(edgeList, set) = set THEN set ELSE ReachableFrom(edgeList, Step(edgeList, set))

\* the goal of the run can be reached from its start
GoalReachable == endNode \in ReachableFrom(edges, {startNode})

\* the ids of the nodes that a snapshot shows with the given status
NodesWithStatus(snapshot, status) ==
    {snapshot.nodes[k].id : k \in {l \in DOMAIN snapshot.nodes : snapshot.nodes[l].status = status}}

\* C13: when the goal is reachable from the start, the path breadthFirstSearch
\* reconstructs starts with the start id, ends with the goal id, every two
\* consecutive ids of it are joined by an edge of the input graph, and its
\* nodes are the ones the final snapshot highlights.
C13_BfsPath ==
    (generator = "breadthFirstSearch" /\ GoalReachable)
    => (/\ Len(path) >= 1
        /\ path[1] = startNode
        /\ path[Len(path)] = endNode
        /\ \A k \in 1..(Len(path) - 1) : \E e \in Elems(edges) : Joins(e, path[k], path[k + 1])
        /\ NodesWithStatus(Final(trace), "path") = Elems(path))

\* a goal two edges away from the start was reached
C13_Witness ==
    /\ generator = "breadthFirstSearch"
    /\ GoalReachable
    /\ Len(path) = 3

\* the frontier that the last snapshot of a traversal shows is empty
FrontierEmpty ==
    CASE generator = "breadthFirstSearch" -> Final(trace).queue = <<>>
      [] generator = "aStar" -> Final(trace).openSet = <<>>
      [] generator = "dijkstra" ->
            \A id \in DOMAIN Final(trace).distances :
               Final(trace).distances[id] < Infinity => Includes(Final(trace).visited, id)
      [] OTHER -> Final(trace).stack = <<>>

\* C14: when the goal is not reachable from the start, BFS, DFS, Dijkstra, A*
\* and the tricolor traversal return once their frontier is empty, with a trace
\* without a path-reconstruction snapshot: no path was reconstructed and no
\* node or edge of any snapshot has status 'path'.
C14_NoPathWhenUnreachable ==
    (generator \in {"breadthFirstSearch", "depthFirstSearch", "dijkstra", "aStar",
                    "tricolorAlgorithm"}
     /\ ~GoalReachable)
    => (/\ path = <<>>
        /\ FrontierEmpty
        /\ \A k \in DOMAIN trace :
              /\ \A n \in DOMAIN trace[k].nodes : trace[k].nodes[n].status # "path"
              /\ \A e \in DOMAIN trace[k].edges : trace[k].edges[e].status # "path")

\* a traversal that visited a second node over an edge and never met the goal
C14_Witness ==
    /\ generator \in {"dijkstra", "aStar", "tricolorAlgorithm"}
    /\ ~GoalReachable
    /\ Len(trace) >= 4
    /\ \E e \in DOMAIN Final(trace).edges : Final(trace).edges[e].status = "current"

\* C15: for hashTableSearch on distinct keys, the hash of every key is in 0..9
\* (every inserted key lies in the bucket of its hash), the last snapshot has
\* currentBucket = hash(searchKey), and its found flag is true exactly when
\* searchKey is one of the inserted keys.
C15_HashSearchFinal ==
    generator = "hashTableSearch"
    => (/\ \A key \in Elems(input) \cup {target} : hash(key) \in 0..9
        /\ \A key \in Elems(input) :
              \E n \in DOMAIN At(Final(trace).buckets, hash(key)) :
                 At(Final(trace).buckets, hash(key))[n].key = key
        /\ Final(trace).currentBucket = hash(target)
        /\ Final(trace).found = (target \in Elems(input)))

\* the key was found as the second node of its bucket's chain
C15_Witness ==
    /\ generator = "hashTableSearch"
    /\ Final(trace).found
    /\ Final(trace).currentNode = 1

\* a percentage is at most another: the fractions a and b compared exactly
AtMost(a, b) == a[1] * b[2] <= b[1] * a[2]

\* the indices of the events with one of the stages
StageIndices(stages) == {k \in DOMAIN events : events[k].stage \in stages}

\* C16: during one export the percentages delivered to the progress callback, by
\* handleExport and generateGifSimple together, never decrease from the first
\* 'processing' event through the last 'encoding' or 'complete' event
C16_ProgressMonotone ==
    \A j \in DOMAIN events : \A k \in DOMAIN events :
        (/\ j < k
         /\ \E f \in StageIndices({"processing"}) : f <= j
         /\ \E l \in StageIndices({"encoding", "complete"}) : k <= l)
        => AtMost(events[j].progress, events[k].progress)

\* a capture of the last export failed: fewer frames are buffered than the loop
\* has been through
FrameFailed == Len(frames) < exportIndex

\* C17: once the capture of a frame has failed the export is over with an 'error'
\* event and no artifact, and every artifact is encoded from exactly as many
\* frames as the exported trace has snapshots
C17_FrameFailureAborts ==
    /\ FrameFailed => (/\ outcome = "caught"
                       /\ Final(events).stage = "error"
                       /\ artifact = <<>>)
    /\ outcome = "downloaded" => Len(artifact) = Len(exportStates)

\* C18: the stages of an export are sequential: FFmpegService.load has completed
\* before the first frame is captured, and when the backend is unavailable no
\* frame is captured at all
C18_LoadBeforeCapture ==
    /\ frames # <<>> => isLoaded
    /\ (outcome = "caught" /\ ffmpeg = "null") => frames = <<>>

\* the last handleExport has returned
ExportOver == outcome \in {"downloaded", "caught"}

\* C19: every export of a non-empty trace terminates, whether the backend is
\* unavailable, a frame fails or the encoding fails: handleExport returns with the
\* failure caught, the last progress event is 'complete' or 'error', isExporting
\* is false again, and no step of the export changes the store's trace or the
\* playback position
C19_ExportTerminates ==
    /\ (outcome = "running") ~> ExportOver
    /\ [](ExportOver => (/\ ~isExporting
                         /\ exportAt = "idle"
                         /\ Final(events).stage \in {"complete", "error"}))
    /\ [][(handleExport \/ ExportStep)
            => UNCHANGED <<states, statesRef, currentAlgorithm, currentState>>]_vars

\* an export that lost a frame and found the backend unavailable is over, away
\* from the first snapshot
C19_Witness ==
    /\ outcome = "caught"
    /\ FrameFailed
    /\ ffmpeg = "null"
    /\ ~isExporting
    /\ Final(events).stage = "error"
    /\ currentState > 0

\* C20: the frames are buffered in increasing trace index and, while no capture
\* has failed, the k-th buffered frame is the rendering of snapshot k of the trace
\* that was current when the export started, whether or not the exporter was
\* handed the Visualiser's canvas and whatever the store's trace has become since
C20_FramesFollowTrace ==
    (outcome # "none" /\ ~FrameFailed)
    => /\ Len(frames) = exportIndex
       /\ \A k \in DOMAIN frames : frames[k] = renderBarChart(exportStates[k])

\* the largest value shown anywhere in a trace
TraceMax(t) ==
    LET all == UNION {Elems(t[k].values) : k \in DOMAIN t}
    IN  CHOOSE m \in all : \A v \in all : v <= m

\* C21: in every frame the bar renderer draws of a generated array trace, the
\* value the bar heights are scaled by is the maximum over the whole trace
C21_ScaleIsTraceMax ==
    generator \in {"bubbleSort", "insertionSort", "mergeSort", "quickSort"}
    => \A k \in DOMAIN trace :
          \A b \in DOMAIN renderBarChart(trace[k]) :
              renderBarChart(trace[k])[b].maxValue = TraceMax(trace)

\* the colour of the role of highest precedence that holds an index of a snapshot,
\* in the order found > sorted > swapping > comparing > searching > normal
PrecedenceColor(state, index) ==
    IF index \in Elems(Field(state, "found")) THEN "green-500"
    ELSE IF index \in Elems(Field(state, "sorted")) THEN "green-400"
    ELSE IF index \in Elems(Field(state, "swapping")) THEN "red-400"
    ELSE IF index \in Elems(Field(state, "comparing")) THEN "yellow-400"
    ELSE IF index \in Elems(Field(state, "searching")) THEN "blue-400"
    ELSE "gray-500"

\* C22: an index that belongs to several role sets of a snapshot is drawn in the
\* colour of the role that comes first in found > sorted > swapping > comparing >
\* searching > normal
C22_ColorPrecedence ==
    \A k \in DOMAIN trace :
        \A b \in DOMAIN renderBarChart(trace[k]) :
            renderBarChart(trace[k])[b].color = PrecedenceColor(trace[k], b - 1)

\* a snapshot shows the default input as it was handed over: the default array,
\* the default graph, or the table holding the service's keys with their values
ShowsDefaultInput(snapshot) ==
    IF "values" \in DOMAIN snapshot
    THEN snapshot.values = DefaultData
    ELSE IF "nodes" \in DOMAIN snapshot
    THEN /\ Len(snapshot.nodes) = Len(getDefaultGraphData.nodes)
         /\ \A k \in DOMAIN snapshot.nodes :
               /\ snapshot.nodes[k].id = getDefaultGraphData.nodes[k].id
               /\ snapshot.nodes[k].x = getDefaultGraphData.nodes[k].x
               /\ snapshot.nodes[k].y = getDefaultGraphData.nodes[k].y
         /\ Len(snapshot.edges) = Len(getDefaultGraphData.edges)
         /\ \A k \in DOMAIN snapshot.edges :
               /\ snapshot.edges[k].from = getDefaultGraphData.edges[k].from
               /\ snapshot.edges[k].to = getDefaultGraphData.edges[k].to
               /\ snapshot.edges[k].weight = getDefaultGraphData.edges[k].weight
    ELSE UNION {Elems(snapshot.buckets[b]) : b \in DOMAIN snapshot.buckets}
            = {[key |-> ServiceKeys[k], value |-> DefaultData[k]] : k \in DOMAIN DefaultData}

\* C23: generateStates(id), called for an id of the catalog that is not the current
\* one, leaves a trace with at least one snapshot, the first of which shows the
\* unmodified default input
C23_CatalogTrace ==
    currentAlgorithm # "null"
    => /\ Len(states) >= 1
       /\ ShowsDefaultInput(states[1])

\* the least total weight of a walk of at most k edges from a node to the goal of
\* the run, Infinity when there is none
RECURSIVE LeastWeight(_, _)
LeastWeight(from, k) ==
    IF from = endNode THEN 0
    ELSE IF k = 0 THEN Infinity
    ELSE LET onward == {Neighbors(edges, from)[j].weight
                            + LeastWeight(Neighbors(edges, from)[j].node, k - 1) :
                        j \in DOMAIN Neighbors(edges, from)}
         IN  IF onward = {} THEN Infinity
             ELSE CHOOSE w \in onward : \A v \in onward : w <= v

\* the total weight of the edges along a path of a simple graph
RECURSIVE PathWeight(_)
PathWeight(p) ==
    IF Len(p) < 2 THEN 0
    ELSE (CHOOSE e \in Elems(edges) : Joins(e, p[1], p[2])).weight + PathWeight(Tail(p))

\* C24: when the goal is reachable from the start, the path aStar reconstructs
\* has the least total weight of all paths from the start to the goal
C24_AStarOptimal ==
    (generator = "aStar" /\ GoalReachable)
    => (/\ Len(path) >= 1
        /\ path[1] = startNode
        /\ path[Len(path)] = endNode
        /\ PathWeight(path) = LeastWeight(startNode, Len(input)))

\* some edge names a node id that no node of the list has
MalformedEdges(nodes, edgeList) ==
    \E k \in DOMAIN edgeList :
        \/ ~\E m \in DOMAIN nodes : nodes[m].id = edgeList[k].from
        \/ ~\E m \in DOMAIN nodes : nodes[m].id = edgeList[k].to

\* C25: breadthFirstSearch, depthFirstSearch or dijkstra called with an edge
\* whose from or to id is the id of no node returns no trace at all: no
\* snapshot is built from the malformed graph.
C25_MalformedGraphRejected ==
    (generator \in {"breadthFirstSearch", "depthFirstSearch", "dijkstra"}
        /\ MalformedEdges(input, edges))
    => trace = <<>>

\* C26: after any sequence of setAlgorithm, generateStates and runAlgorithm,
\* whenever currentAlgorithm is an id the stored states are exactly the trace
\* the store generates for that id on the default input: the selected id and
\* the trace never disagree.
C26_StatesMatchSelection ==
    currentAlgorithm # "null" => states = DefaultTraces[currentAlgorithm]

\* C27: in every snapshot of every bubbleSort, insertionSort, mergeSort and
\* quickSort trace, values is a permutation of the input array: no snapshot
\* shows an element of the input twice or leaves one out.
C27_SnapshotsPermuteInput ==
    generator \in {"bubbleSort", "insertionSort", "mergeSort", "quickSort"}
    => \A k \in DOMAIN trace : Permutation(trace[k].values, input)

\* the edge e joins two nodes that follow one another on the path p
Consecutive(e, p) == \E k \in 1..(Len(p) - 1) : Joins(e, p[k], p[k + 1])

\* C28: in the final snapshot of breadthFirstSearch, depthFirstSearch, dijkstra
\* and aStar when the goal was reached, an edge has status 'path' exactly when
\* it joins two consecutive nodes of the reconstructed path; an edge between
\* two path nodes that are not consecutive is not marked 'path'.
C28_PathEdgesConsecutive ==
    (generator \in {"breadthFirstSearch", "depthFirstSearch", "dijkstra", "aStar"}
        /\ path # <<>>)
    => \A k \in DOMAIN Final(trace).edges :
          Final(trace).edges[k].status = "path" <=> Consecutive(Final(trace).edges[k], path)

\* the ids of the nodes a generator was given
NodeIds == {input[k].id : k \in DOMAIN input}

\* the colour a snapshot gives a node, as its place in white -> gray -> black
ColourRank(snapshot, id) ==
    IF Includes(snapshot.whiteNodes, id) THEN 0
    ELSE IF Includes(snapshot.grayNodes, id) THEN 1
    ELSE 2

\* C29: in every snapshot of a tricolorAlgorithm trace whose start node is in
\* the graph, whiteNodes, grayNodes and blackNodes are pairwise disjoint and
\* together hold every node; and from one snapshot to the next a node keeps
\* its colour or moves one step along white -> gray -> black, never backwards.
C29_TricolorPartition ==
    (generator = "tricolorAlgorithm" /\ startNode \in NodeIds)
    => /\ \A k \in DOMAIN trace :
             /\ Elems(trace[k].whiteNodes) \cap Elems(trace[k].grayNodes) = {}
             /\ Elems(trace[k].whiteNodes) \cap Elems(trace[k].blackNodes) = {}
             /\ Elems(trace[k].grayNodes) \cap Elems(trace[k].blackNodes) = {}
             /\ Elems(trace[k].whiteNodes) \cup Elems(trace[k].grayNodes)
                    \cup Elems(trace[k].blackNodes) = NodeIds
       /\ \A k \in 1..(Len(trace) - 1) :
             \A id \in NodeIds :
                 ColourRank(trace[k + 1], id) - ColourRank(trace[k], id) \in {0, 1}

\* a tricolorAlgorithm trace with a snapshot that shows a white, a gray and a
\* black node at once
C29_Witness ==
    /\ generator = "tricolorAlgorithm"
    /\ startNode \in NodeIds
    /\ \E k \in DOMAIN trace :
          /\ trace[k].whiteNodes # <<>>
          /\ trace[k].grayNodes # <<>>
          /\ trace[k].blackNodes # <<>>

\* what a caller of loadFFmpegModules comes to see: "pending" until the promise
\* it was handed settles
Received(call) ==
    IF handed[call].promise = 0 THEN "false" ELSE loads[handed[call].promise].state

====
